---------------------------- MODULE Spec2Model ----------------------------
(***************************************************************************)
(* A model of the dragonstash on-disk cache (package filecache): the inode *)
(* store, the per-file blockmap and .data file, the cache manager with its *)
(* path map and dirty set, and the handle reference counting.              *)
(*                                                                         *)
(* Objects of the Go heap (inodes, file handles) and files of the cache    *)
(* directory are modelled with identity: an inode loaded from disk by      *)
(* getInode is a fresh object that is not entered into the path map, and   *)
(* an open file descriptor keeps pointing at its file after the name was   *)
(* renamed over.                                                           *)
(***************************************************************************)
EXTENDS Integers, Sequences, FiniteSets, TLC

(***************************************************************************)
(* Bounds of the model.                                                    *)
(***************************************************************************)
\* Block size in bytes.  The program uses 4096 (filecache.go:20); the model
\* scales it down so that the .data file can be modelled byte by byte.
BLOCK_SIZE == 3
\* Number of blocks a file may span in the model.
MaxBlocks == 2
\* Upper bound on the access counter the model lets a block reach.
MaxTouch == 2
\* Stand-in for 2^64, the modulus of uint64 arithmetic (TLC integers are
\* 32 bit wide).  Every genuine size of the model is far below it.
U64 == 1048576

(***************************************************************************)
(* Program constants.                                                      *)
(***************************************************************************)
fileInode_HEADER_SIZE == 128
fileInode_PAGE_SIZE == 4096
fileInode_BLOCK_INFO_SIZE == 2
block_FLAG_DIRTY == 32768
block_ACTR_MAX == 255
S_IFREG == 32768
S_IFDIR == 16384
S_IFLNK == 40960
inode_MAX_LINK_DEST_LEN == 2048
inode_MAX_DIR_CHILDREN == 65535
inode_MAX_DIR_ENTRY == 1024
\* bytes written by baseInode.write followed by fileInode.writeFileData
METADATA_BYTES == 62

Min(a, b) == IF a < b THEN a ELSE b
Max(a, b) == IF a > b THEN a ELSE b

\* x - y in uint64 arithmetic
SubU64(x, y) == (x - y + U64) % U64

EmptyFn == [x \in {} |-> 0]

\* TLC keeps a function constructor [x \in S |-> e] unevaluated and
\* evaluates e at every application.  Fn (functions) and Sq (sequences) are
\* the identity and make TLC evaluate the constructor once.
Fn(f) == f @@ EmptyFn

Sq(s) == s \o << >>

(***************************************************************************)
(* blockinfo: a 16 bit blockmap entry.  Bits 15..12 flags, 7..0 ACTR.      *)
(***************************************************************************)
readACTR(b) == b % 256

writeACTR(b, value) == (b - (b % 256)) + value

readFlags(b) == (b \div 4096) * 4096

writeFlags(b, value) == (b % 4096) + ((value \div 4096) % 16) * 4096

Touch(b) ==
    LET ctr == readACTR(b) IN
    IF ctr = block_ACTR_MAX
    THEN [b |-> b, new |-> FALSE, overflow |-> TRUE]
    ELSE [b |-> writeACTR(b, ctr + 1), new |-> (ctr = 0),
          overflow |-> (ctr + 1 = block_ACTR_MAX)]

\* Shift that halves without keeping a non-zero counter non-zero
Shift_Halves(b) == writeACTR(b, readACTR(b) \div 2)

Shift(b) ==
    LET ctr == readACTR(b) IN
    IF ctr = 0 THEN b
    ELSE writeACTR(b, IF ctr \div 2 = 0 THEN 1 ELSE ctr \div 2)

blockinfo_Discard(b) == [b |-> 0, existed |-> (readACTR(b) # 0)]

MarkDirty(b) ==
    writeFlags(b, IF readFlags(b) >= block_FLAG_DIRTY
                  THEN readFlags(b)
                  ELSE readFlags(b) + block_FLAG_DIRTY)

blockinfo_IsAvailable(b) == readACTR(b) # 0


(***************************************************************************)
(* Serialised inode headers.  A header is the sequence of the fields in    *)
(* the order baseInode.write emits them; baseInode.read consumes them in   *)
(* its own order.                                                          *)
(***************************************************************************)
baseInode_write(ino) ==
    << "ino", 1, ino.mode, ino.uid, ino.gid, FALSE,
       ino.mtime, ino.atime, ino.ctime, FALSE, ino.size >>

\* The fields baseInode.read stores; ok is FALSE when the file is too short
\* or magic or version do not match.
baseInode_read(bytes) ==
    IF Len(bytes) < 11 \/ bytes[1] # "ino" \/ bytes[2] # 1
    THEN [ok |-> FALSE, mode |-> 0, uid |-> 0, gid |-> 0, mtime |-> 0,
          atime |-> 0, ctime |-> 0, size |-> 0]
    ELSE [ok |-> TRUE, mode |-> bytes[3], uid |-> bytes[4], gid |-> bytes[5],
          mtime |-> bytes[7], atime |-> bytes[8], ctime |-> bytes[9],
          size |-> bytes[11]]

writeFileData(ino) == << "REG", 1, ino.blocks_used >>

readFileData(ext) ==
    IF Len(ext) < 3 \/ ext[1] # "REG" \/ ext[2] # 1
    THEN [ok |-> FALSE, blocks_used |-> 0]
    ELSE [ok |-> TRUE, blocks_used |-> ext[3]]

(***************************************************************************)
(* fileInode.  The in-memory part is the inode record `ino`; of the        *)
(* backing file `f` the inode uses len, meta and bm: its length in bytes,  *)
(* the header bytes at offset 0 (<<>> when never written) and the blockmap *)
(* entries stored from offset 128 on, accessed through a shared mapping.   *)
(***************************************************************************)
Blocks == 0 .. (MaxBlocks - 1)

EmptyMap == Fn([i \in Blocks |-> 0])

\* Files of the cache directory.  An inode file uses len, meta and bm; a
\* .data file uses bytes (0 is a byte no PutData has written: a hole).
FreeFile ==
    [kind |-> "free", len |-> 0, meta |-> <<>>, bm |-> EmptyMap, bytes |-> <<>>]

NewBackingFile == [FreeFile EXCEPT !.kind = "inode"]

NewDataFile == [FreeFile EXCEPT !.kind = "data"]

\* number of blockmap entries a backing file of `len` bytes holds
MapEntries(len) ==
    IF len <= fileInode_HEADER_SIZE THEN 0
    ELSE (len - fileInode_HEADER_SIZE) \div fileInode_BLOCK_INFO_SIZE

SizeBlocks(ino) == (ino.size + BLOCK_SIZE - 1) \div BLOCK_SIZE

\* os.File.Truncate on the backing file: entries cut off read as zero when
\* the file grows again.
resizeMapToBlocks(f, new_blocks) ==
    LET raw == new_blocks * fileInode_BLOCK_INFO_SIZE + fileInode_HEADER_SIZE
        new_pages == (raw + fileInode_PAGE_SIZE - 1) \div fileInode_PAGE_SIZE
        new_size == new_pages * fileInode_PAGE_SIZE
    IN  IF f.len = new_size THEN f
        ELSE [f EXCEPT !.len = new_size,
                       !.bm = Fn([i \in Blocks |->
                                    IF i < MapEntries(Min(f.len, new_size))
                                    THEN f.bm[i] ELSE 0])]

writeMetadata(ino, f) ==
    [f EXCEPT !.meta = baseInode_write(ino) \o writeFileData(ino),
              !.len = Max(@, METADATA_BYTES)]

fileInode_IsAvailable(ino, f, block) ==
    IF block >= SizeBlocks(ino) THEN FALSE
    ELSE blockinfo_IsAvailable(f.bm[block])

SetWritten(ino, f, start, end) ==
    LET nblocks == SizeBlocks(ino)
        e == IF end > nblocks THEN nblocks ELSE end
    IN  IF start >= nblocks \/ end <= start
        THEN [ino |-> ino, f |-> f]
        ELSE LET new_blocks == Cardinality({i \in start .. (e - 1) :
                                              Touch(f.bm[i]).new})
             IN [ino |-> [ino EXCEPT !.blocks_used = (@ + new_blocks) % U64],
                 f |-> [f EXCEPT !.bm = Fn([i \in Blocks |->
                          IF i >= start /\ i < e
                          THEN Touch(f.bm[i]).b ELSE f.bm[i]])]]

\* The loop runs to `end` without clipping it to the size of the file.
fileInode_Discard(ino, f, start, end) ==
    IF start >= SizeBlocks(ino) \/ end <= start
    THEN [ino |-> ino, f |-> f, ret |-> 0]
    ELSE LET ctr == Cardinality({i \in start .. (end - 1) :
                                   blockinfo_Discard(f.bm[i]).existed})
         IN [ino |-> [ino EXCEPT !.blocks_used = SubU64(@, ctr)],
             f |-> [f EXCEPT !.bm = Fn([i \in Blocks |->
                      IF i >= start /\ i < end
                      THEN blockinfo_Discard(f.bm[i]).b ELSE f.bm[i]])],
             ret |-> ctr]

SetRead(ino, f, start, end) == SetWritten(ino, f, start, end)

getAvailableBlocks(f, start, end) ==
    Cardinality({i \in start .. (end - 1) : blockinfo_IsAvailable(f.bm[i])})

Resize(ino, f, nbytes) ==
    LET new_blocks == (nbytes + BLOCK_SIZE - 1) \div BLOCK_SIZE
        old_size == ino.size
        old_blocks == SizeBlocks(ino)
        shrink == new_blocks < old_blocks
        grow_unaligned == /\ ~shrink
                          /\ nbytes > old_size
                          /\ old_size > 0
                          /\ old_size % BLOCK_SIZE # 0
        discarded ==
            IF shrink THEN getAvailableBlocks(f, new_blocks, old_blocks)
            ELSE IF grow_unaligned
                    /\ blockinfo_Discard(f.bm[old_blocks - 1]).existed
                 THEN 1 ELSE 0
        f1 == IF grow_unaligned
              THEN [f EXCEPT !.bm[old_blocks - 1] = blockinfo_Discard(@).b]
              ELSE f
        ino1 == [ino EXCEPT !.size = nbytes]
    IN  [ino |-> ino1,
         f |-> writeMetadata(ino1, resizeMapToBlocks(f1, new_blocks)),
         ret |-> discarded]

fileInode_SetSize(ino, f, new) ==
    LET r == Resize(ino, f, new) IN [ino |-> r.ino, f |-> r.f]

\* ensureUnmapped, writeMetadata, file.Sync
fileInode_Sync(ino, f) == writeMetadata(ino, f)

fileInode_Blocks(ino) == IF SizeBlocks(ino) = 0 THEN 0 ELSE ino.blocks_used

\* Returns actual_size and at_eof; all arithmetic is uint64.
TruncateRead(ino, f, position, size) ==
    LET filesize == ino.size
        start_block == position \div BLOCK_SIZE
        end_byte0 == (position + size) % U64
        clamp == end_byte0 > filesize
        end_byte == IF clamp THEN filesize ELSE end_byte0
        size1 == IF clamp THEN SubU64(end_byte, position) ELSE size
        end_block == (((position + size1) % U64) + BLOCK_SIZE - 1) \div BLOCK_SIZE
        missing == {b \in start_block .. (end_block - 1) :
                      ~blockinfo_IsAvailable(f.bm[b])}
        actual_end_block ==
            IF missing = {} THEN end_block
            ELSE CHOOSE b \in missing : \A c \in missing : b <= c
        at_eof1 == IF missing = {} THEN clamp ELSE FALSE
        aeb0 == actual_end_block * BLOCK_SIZE
        aeb1 == IF aeb0 > end_byte THEN end_byte ELSE aeb0
        aeb2 == IF aeb1 > filesize THEN filesize ELSE aeb1
    IN  IF filesize = 0 THEN [actual_size |-> 0, at_eof |-> TRUE]
        ELSE IF actual_end_block <= start_block
        THEN [actual_size |-> 0, at_eof |-> FALSE]
        ELSE [actual_size |-> SubU64(aeb2, position),
              at_eof |-> (at_eof1 \/ aeb1 > filesize)]


(***************************************************************************)
(* State.                                                                  *)
(***************************************************************************)
VARIABLES
    inodes,       \* FileCache.inodes: normalized path -> inode object
    dirtyInodes,  \* FileCache.dirtyInodes: set of inode objects
    heap,         \* the inode objects of the process
    handles,      \* the fileCachedFile objects of the process
    disk,         \* names in the cache directory: <<path, suffix>> -> file
    files,        \* the files of the cache directory, by identity
    puts,         \* per byte offset, the byte most recently put (0: none)
    source,       \* the source filesystem below the overlay
    thr,          \* the threads: position and local variables of each
    locks,        \* the holders of the manager mutex and the inode mutex
    last          \* the last operation, its arguments and what it returned

vars ==
    << inodes, dirtyInodes, heap, handles, disk, files, puts, source, thr,
       locks, last >>

\* Numbers of inode objects, handles and files a state of the model holds.
MaxObjs == 2
MaxHandles == 2
MaxFiles == 3

\* The number of references to one handle its clients hold at a time.
MaxRefs == 2

\* An operation allocates before the objects it replaces are dropped.
ObjIds == 1 .. (MaxObjs + 4)
HandleIds == 1 .. (MaxHandles + 2)
FileIds == 1 .. (MaxFiles + 4)

FreeInode ==
    [kind |-> "free", storage_path |-> "", mode |-> 0, mtime |-> 0,
     atime |-> 0, ctime |-> 0, size |-> 0, uid |-> 0, gid |-> 0,
     blocks_used |-> 0, file |-> 0, handle |-> 0, dest |-> "",
     children |-> <<>>]

\* held: how many references to the handle its clients hold (OpenFile
\* returns not yet matched by a Close); not a field of the program.
FreeHandle ==
    [inode |-> 0, refcnt |-> 0, file |-> 0, open |-> FALSE, held |-> 0]

Put(f, k, v) ==
    Fn([x \in (DOMAIN f) \cup {k} |-> IF x = k THEN v ELSE f[x]])

Del(f, k) == Fn([x \in (DOMAIN f) \ {k} |-> f[x]])

Lookup(f, k) == IF k \in DOMAIN f THEN f[k] ELSE 0

\* The state of process and cache directory as one value, threaded through
\* the operators that model the program's functions.  pinned: the handles
\* the local variables of running threads point to.
St ==
    [inodes |-> inodes, dirty |-> dirtyInodes, heap |-> heap,
     handles |-> handles, disk |-> disk, files |-> files, panic |-> FALSE,
     pinned |-> {}]

SmallestFree(S) == CHOOSE i \in S : \A j \in S : i <= j

FreeObjs(st) == {i \in ObjIds : st.heap[i].kind = "free"}
FreeHandles(st) == {i \in HandleIds : st.handles[i].inode = 0}
FreeFiles(st) == {i \in FileIds : st.files[i].kind = "free"}

\* Objects and files nothing refers to any more are dropped, so that
\* identities are reused.
RootObjs(st) ==
    {st.inodes[p] : p \in DOMAIN st.inodes} \cup st.dirty
        \cup {st.handles[h].inode :
                 h \in {x \in HandleIds : st.handles[x].held > 0 \/ x \in st.pinned}}

Collect(st) ==
    LET objs == RootObjs(st) \ {0}
        hs == {h \in HandleIds : st.handles[h].inode # 0 /\
                  (st.handles[h].held > 0 \/ h \in st.pinned \/
                   \E i \in objs : st.heap[i].handle = h)}
        fs == {st.disk[n] : n \in DOMAIN st.disk}
                \cup {st.heap[i].file : i \in objs}
                \cup {st.handles[h].file : h \in {x \in hs : st.handles[x].open}}
    IN  [st EXCEPT
            !.heap = Sq([i \in ObjIds |->
                           IF i \in objs THEN @[i] ELSE FreeInode]),
            !.handles = Sq([h \in HandleIds |->
                              IF h \in hs THEN @[h] ELSE FreeHandle]),
            !.files = Sq([x \in FileIds |->
                            IF x \in fs THEN @[x] ELSE FreeFile])]

\* Identities carry no meaning: the objects, handles and files that are
\* left are renumbered 1, 2, ... in the order of their identities.  hmap
\* is the renumbering of the handles.
Rank(S, i) == IF i \in S THEN Cardinality({j \in S : j <= i}) ELSE 0

Nth(S, k) == CHOOSE i \in S : Rank(S, i) = k

Compact(st) ==
    LET objs == ObjIds \ FreeObjs(st)
        hs == HandleIds \ FreeHandles(st)
        fs == FileIds \ FreeFiles(st)
    IN  [inodes |-> Fn([p \in DOMAIN st.inodes |-> Rank(objs, st.inodes[p])]),
         dirty |-> {Rank(objs, i) : i \in st.dirty},
         heap |-> Sq([k \in ObjIds |->
                        IF k > Cardinality(objs) THEN FreeInode
                        ELSE [st.heap[Nth(objs, k)] EXCEPT
                                 !.file = Rank(fs, @),
                                 !.handle = Rank(hs, @)]]),
         handles |-> Sq([k \in HandleIds |->
                           IF k > Cardinality(hs) THEN FreeHandle
                           ELSE [st.handles[Nth(hs, k)] EXCEPT
                                    !.inode = Rank(objs, @),
                                    !.file = Rank(fs, @)]]),
         disk |-> Fn([n \in DOMAIN st.disk |-> Rank(fs, st.disk[n])]),
         files |-> Sq([k \in FileIds |->
                         IF k > Cardinality(fs) THEN FreeFile
                         ELSE st.files[Nth(fs, k)]]),
         panic |-> st.panic,
         pinned |-> {Rank(hs, h) : h \in st.pinned},
         hmap |-> Fn([h \in HandleIds \cup {0} |-> Rank(hs, h)])]

\* A panic ends the process: its memory is gone, the cache directory stays.
Died(st) ==
    Collect([st EXCEPT !.inodes = EmptyFn, !.dirty = {},
                       !.heap = Sq([i \in ObjIds |-> FreeInode]),
                       !.handles = Sq([h \in HandleIds |-> FreeHandle])])

\* The largest value the model lets blocks_used take (on either side of
\* zero: the counter is unsigned and wraps).
MaxUsed == 3

InBounds(st) ==
    /\ Cardinality(ObjIds \ FreeObjs(st)) <= MaxObjs
    /\ Cardinality(HandleIds \ FreeHandles(st)) <= MaxHandles
    /\ Cardinality(FileIds \ FreeFiles(st)) <= MaxFiles
    /\ \A h \in HandleIds : st.handles[h].held <= MaxRefs
    /\ \A f \in FileIds : \A b \in Blocks : readACTR(st.files[f].bm[b]) <= MaxTouch
    /\ \A i \in ObjIds : \/ st.heap[i].blocks_used <= MaxUsed
                         \/ st.heap[i].blocks_used >= U64 - MaxUsed

NoStat ==
    [mode |-> 0, mtime |-> 0, atime |-> 0, ctime |-> 0, size |-> 0,
     uid |-> 0, gid |-> 0, blocks |-> 0]

\* What `last` records of an operation: its name, the path, stat or handle
\* it was called with and the error it returned ("nil", an errno name or
\* "panic"; for OpenFile h is the handle returned).
NoLast == [op |-> "none", path |-> "", stat |-> NoStat, h |-> 0, err |-> "nil"]

\* The state after an operation that left st: what is unreachable is
\* dropped; a panic ends the process.
Final(st) ==
    CHOOSE fin \in {Compact(c) : c \in {IF st.panic THEN Died(st) ELSE Collect(st)}} :
        TRUE

Install(fin, l) ==
    /\ InBounds(fin)
    /\ inodes' = fin.inodes
    /\ dirtyInodes' = fin.dirty
    /\ heap' = fin.heap
    /\ handles' = fin.handles
    /\ disk' = fin.disk
    /\ files' = fin.files
    /\ last' = [l EXCEPT !.h = fin.hmap[@]]

Commit(st, l) ==
    \E fin \in {Final(st)} :
        Install(fin, IF fin.panic THEN [l EXCEPT !.err = "panic"] ELSE l)


(***************************************************************************)
(* .data files.                                                            *)
(***************************************************************************)
\* os.File.WriteAt of which only the first n bytes reach the file
WriteAt(bytes, data, position, n) ==
    IF n = 0 THEN bytes
    ELSE Sq([i \in 1 .. Max(Len(bytes), position + n) |->
               IF i > position /\ i <= position + n THEN data[i - position]
               ELSE IF i <= Len(bytes) THEN bytes[i] ELSE 0])

\* os.File.Truncate
Truncate(bytes, size) ==
    Sq([i \in 1 .. size |-> IF i <= Len(bytes) THEN bytes[i] ELSE 0])

\* fallocate(PUNCH_HOLE | KEEP_SIZE)
PunchHole(bytes, offset, length) ==
    Sq([i \in 1 .. Len(bytes) |->
          IF i > offset /\ i <= offset + length THEN 0 ELSE bytes[i]])

\* os.File.ReadAt of up to `count` bytes
ReadAt(bytes, position, count) ==
    LET k == Max(0, Min(count, Len(bytes) - position)) IN
    [data |-> Sq([i \in 1 .. k |-> bytes[position + i]]),
     n |-> k,
     err |-> IF k < count THEN "EOF" ELSE "nil"]

(***************************************************************************)
(* fileCachedFile.  h is the handle, st the state before.                  *)
(***************************************************************************)
InodeOf(st, h) == st.heap[st.handles[h].inode]

BackingOf(st, h) == st.files[InodeOf(st, h).file]

DataOf(st, h) == st.files[st.handles[h].file]

\* store what an operation of the handle's inode returned
WithInode(st, h, r) ==
    [st EXCEPT !.heap[st.handles[h].inode] = r.ino,
               !.files[InodeOf(st, h).file] = r.f]

\* stat of the .data file; panics when the file is closed
size(st, h) == Len(DataOf(st, h).bytes)

discard(st, h, start_block, end_block) ==
    LET st1 == IF st.handles[h].open
               THEN [st EXCEPT !.files[st.handles[h].file].bytes =
                        PunchHole(@, start_block * BLOCK_SIZE,
                                  (end_block - start_block) * BLOCK_SIZE)]
               ELSE st
    IN  WithInode(st1, h, fileInode_Discard(InodeOf(st1, h), BackingOf(st1, h),
                                            start_block, end_block))

resize(st, h, new_size) ==
    LET st1 == WithInode(st, h, Resize(InodeOf(st, h), BackingOf(st, h), new_size))
    IN  [st1 EXCEPT !.files[st.handles[h].file].bytes = Truncate(@, new_size)]

\* n: the number of bytes WriteAt gets written
writeAndMarkWritten(st, h, data, position, n) ==
    LET end_byte == Len(data) + position
        st1 == [st EXCEPT !.files[st.handles[h].file].bytes =
                              WriteAt(@, data, position, n)]
        actual_end_byte == n + position
        short == actual_end_byte < end_byte
        end_block == IF short THEN actual_end_byte \div BLOCK_SIZE
                     ELSE (end_byte + BLOCK_SIZE - 1) \div BLOCK_SIZE
        st2 == IF short THEN discard(st1, h, end_block, end_block + 1) ELSE st1
    IN  WithInode(st2, h, SetWritten(InodeOf(st2, h), BackingOf(st2, h),
                                     position \div BLOCK_SIZE, end_block))

writeRandom(st, h, data, position, n) ==
    LET start_block == position \div BLOCK_SIZE
        start_aligned == start_block * BLOCK_SIZE = position
        end_byte == position + Len(data)
        end_block == (end_byte + BLOCK_SIZE - 1) \div BLOCK_SIZE
        end_aligned == end_block * BLOCK_SIZE = end_byte
        avail(b) == fileInode_IsAvailable(InodeOf(st, h), BackingOf(st, h), b)
    IN  IF ~start_aligned /\ ~avail(start_block)
        THEN [st |-> st, err |-> "ErrMustBeAligned"]
        ELSE IF ~end_aligned /\ ~avail(end_block - 1)
        THEN [st |-> st, err |-> "ErrMustBeAligned"]
        ELSE [st |-> writeAndMarkWritten(st, h, data, position, n),
              err |-> "nil"]

writeAndExtend(st, h, data, position, n) ==
    LET start_block == position \div BLOCK_SIZE
        start_aligned == start_block * BLOCK_SIZE = position
        end_byte == position + Len(data)
    IN  IF ~start_aligned /\
           ~fileInode_IsAvailable(InodeOf(st, h), BackingOf(st, h), start_block)
        THEN [st |-> st, err |-> "ErrMustBeAligned"]
        ELSE [st |-> writeAndMarkWritten(resize(st, h, end_byte), h,
                                         data, position, n),
              err |-> "nil"]

appendToEnd(st, h, data, position, n) ==
    [st |-> writeAndMarkWritten(resize(st, h, Len(data) + position), h,
                                data, position, n),
     err |-> "nil"]

PutData(st, h, data, position, n) ==
    IF ~st.handles[h].open
    THEN [st |-> [st EXCEPT !.panic = TRUE], err |-> "panic"]
    ELSE LET start_byte == position
             end_byte == Len(data) + position
             sz == size(st, h)
         IN  IF start_byte = sz THEN appendToEnd(st, h, data, position, n)
             ELSE IF end_byte >= sz THEN writeAndExtend(st, h, data, position, n)
             ELSE writeRandom(st, h, data, position, n)

\* Returns the bytes read, their number and the error; data[:to_read]
\* panics when to_read exceeds the length of the buffer.
FetchData(st, h, length, position) ==
    LET to_read == TruncateRead(InodeOf(st, h), BackingOf(st, h),
                                position, length).actual_size
        r == IF st.handles[h].open
             THEN ReadAt(DataOf(st, h).bytes, position, to_read)
             ELSE [data |-> <<>>, n |-> 0, err |-> "closed"]
    IN  IF to_read > length
        THEN [data |-> <<>>, n |-> 0, err |-> "panic"]
        ELSE IF r.n < length
        THEN [data |-> r.data, n |-> r.n, err |-> "EIO"]
        ELSE [data |-> r.data, n |-> r.n, err |-> r.err]


(***************************************************************************)
(* Inodes of all types.                                                    *)
(***************************************************************************)
\* mode & S_IFMT
Format(mode) == ((mode \div 4096) % 16) * 4096

\* mask = S_IRWXU | S_IRWXG | S_IRWXO
Chmod(ino, perms) == [ino EXCEPT !.mode = (@ - (@ % 512)) + (perms % 512)]

SetMode(ino, new) == Chmod(ino, new)

\* The setters in the order updateInode calls them; SetSize comes last and,
\* on a regular inode, resizes and rewrites the header in place.
updateInode(src, ino, f) ==
    LET d == [SetMode(ino, src.mode) EXCEPT
                 !.mtime = src.mtime, !.atime = src.atime,
                 !.ctime = src.ctime, !.uid = src.uid, !.gid = src.gid]
    IN  IF ino.kind = "reg" THEN fileInode_SetSize(d, f, src.size)
        ELSE [ino |-> [d EXCEPT !.size = src.size], f |-> f]

\* The stat view of an inode: the inode itself, through layer.FileStat.
StatOf(ino) ==
    [mode |-> ino.mode, mtime |-> ino.mtime, atime |-> ino.atime,
     ctime |-> ino.ctime, size |-> ino.size, uid |-> ino.uid, gid |-> ino.gid,
     blocks |-> IF ino.kind = "reg" THEN fileInode_Blocks(ino) ELSE 0]

writeLinkData(ino) == << "LNK", 1, Len(ino.dest), ino.dest >>

writeDirData(ino) ==
    << "DIR", 1, Len(ino.children),
       Sq([i \in 1 .. Len(ino.children) |->
             << Len(ino.children[i]), ino.children[i] >>]) >>

readLinkData(ext) ==
    IF Len(ext) < 4 \/ ext[1] # "LNK" \/ ext[2] # 1
           \/ ext[3] > inode_MAX_LINK_DEST_LEN
    THEN [ok |-> FALSE, dest |-> ""]
    ELSE [ok |-> TRUE, dest |-> ext[4]]

readDirData(ext) ==
    IF Len(ext) < 4 \/ ext[1] # "DIR" \/ ext[2] # 1
           \/ ext[3] > inode_MAX_DIR_CHILDREN
           \/ \E i \in 1 .. Len(ext[4]) : ext[4][i][1] > inode_MAX_DIR_ENTRY
    THEN [ok |-> FALSE, children |-> <<>>]
    ELSE [ok |-> TRUE,
          children |-> Sq([i \in 1 .. Len(ext[4]) |-> ext[4][i][2]])]

\* CreateSafe, the writes, safeFile.Close: a new file takes the name.
SafeSync(st, id, ext) ==
    LET ino == st.heap[id]
        tmp == SmallestFree(FreeFiles(st))
    IN  [st EXCEPT
            !.files[tmp] = [NewBackingFile EXCEPT
                               !.meta = baseInode_write(ino) \o ext,
                               !.len = Len(baseInode_write(ino) \o ext)],
            !.disk = Put(@, << ino.storage_path, "" >>, tmp)]

\* inode.Sync of the inode's type
Sync(st, id) ==
    LET ino == st.heap[id] IN
    CASE ino.kind = "lnk" -> SafeSync(st, id, writeLinkData(ino))
      [] ino.kind = "dir" -> SafeSync(st, id, writeDirData(ino))
      [] OTHER -> [st EXCEPT !.files[ino.file] = fileInode_Sync(ino, @)]

getStoragePath(path, suffix) == << path, suffix >>

NewInode(kind, path, format) ==
    [FreeInode EXCEPT !.kind = kind, !.storage_path = path, !.mode = format]

\* Returns the state, the inode object and whether an error occurred.  For
\* a regular inode O_CREATE|O_EXCL fails when the name exists.
createEmptyInode(st, path, format) ==
    LET id == SmallestFree(FreeObjs(st))
        fid == SmallestFree(FreeFiles(st))
        name == getStoragePath(path, "")
    IN  CASE format = S_IFLNK ->
               [st |-> [st EXCEPT !.heap[id] = NewInode("lnk", path, format)],
                id |-> id, err |-> FALSE]
          [] format = S_IFDIR ->
               [st |-> [st EXCEPT !.heap[id] = NewInode("dir", path, format)],
                id |-> id, err |-> FALSE]
          [] format = S_IFREG ->
               IF name \in DOMAIN st.disk
               THEN [st |-> st, id |-> 0, err |-> TRUE]
               ELSE [st |-> [st EXCEPT
                               !.heap[id] = [NewInode("reg", path, format)
                                               EXCEPT !.file = fid],
                               !.files[fid] = NewBackingFile,
                               !.disk = Put(@, name, fid)],
                     id |-> id, err |-> FALSE]
          [] OTHER -> [st |-> st, id |-> 0, err |-> TRUE]

\* Reads the file of that name into a new inode object.
openInode(st, path) ==
    LET name == getStoragePath(path, "")
        fid == Lookup(st.disk, name)
        meta == st.files[fid].meta
        base == baseInode_read(meta)
        ext == SubSeq(meta, 12, Len(meta))
        id == SmallestFree(FreeObjs(st))
        fail == [st |-> st, id |-> 0, err |-> TRUE]
        made(ino) == [st |-> [st EXCEPT !.heap[id] = ino], id |-> id,
                      err |-> FALSE]
        loaded(kind) ==
            [NewInode(kind, path, base.mode) EXCEPT
                !.uid = base.uid, !.gid = base.gid, !.mtime = base.mtime,
                !.atime = base.atime, !.ctime = base.ctime,
                !.size = base.size]
    IN  IF fid = 0 THEN fail
        ELSE IF ~base.ok THEN fail
        ELSE CASE Format(base.mode) = S_IFLNK ->
                    IF ~readLinkData(ext).ok THEN fail
                    ELSE made([loaded("lnk") EXCEPT
                                  !.dest = readLinkData(ext).dest])
               [] Format(base.mode) = S_IFDIR ->
                    IF ~readDirData(ext).ok THEN fail
                    ELSE made([loaded("dir") EXCEPT
                                  !.children = readDirData(ext).children])
               [] Format(base.mode) = S_IFREG ->
                    IF ~readFileData(ext).ok THEN fail
                    ELSE made([loaded("reg") EXCEPT
                                  !.blocks_used = readFileData(ext).blocks_used,
                                  !.file = fid])
               [] OTHER -> fail


(***************************************************************************)
(* FileCache, the cache manager.  Its operators take the state before and  *)
(* return the state after together with what the Go function returns.      *)
(***************************************************************************)
\* Spellings of paths without a leading slash that the model uses (TLC
\* cannot look into a string).
Relative == {"a", "d", "d/x"}

\* normalizePath that does not enforce the leading slash
normalizePath_KeepsRelative(path) == IF path = "/" THEN "" ELSE path

normalizePath(path) ==
    IF path = "/" THEN ""
    ELSE IF Len(path) > 0 /\ path \in Relative THEN "/" \o path
    ELSE path

markInodeDirty(st, id) == [st EXCEPT !.dirty = @ \cup {id}]

getInode(st, path) ==
    IF path \in DOMAIN st.inodes
    THEN [st |-> st, id |-> st.inodes[path], err |-> FALSE]
    ELSE openInode(st, path)

\* Panics when createEmptyInode fails.
requireInode(st, path, format) ==
    LET created(c) ==
            IF c.err
            THEN [st |-> [st EXCEPT !.panic = TRUE], id |-> 0]
            ELSE [st |-> markInodeDirty(
                            [c.st EXCEPT !.inodes = Put(@, path, c.id)], c.id),
                  id |-> c.id]
        got(g) ==
            IF ~g.err /\ Format(g.st.heap[g.id].mode) = format
            THEN [st |-> g.st, id |-> g.id]
            ELSE created(createEmptyInode(g.st, path, format))
    IN  got(getInode(st, path))

deleteInode(st, path) ==
    LET st1 == IF path \in DOMAIN st.inodes
               THEN [st EXCEPT !.inodes = Del(@, path),
                               !.dirty = @ \ {st.inodes[path]}]
               ELSE st
    IN  [st1 EXCEPT !.disk = Del(@, getStoragePath(path, ".inode"))]

putAttr(st, path, stat) ==
    LET updated(r, ino, u) ==
            IF ino.kind = "reg"
            THEN markInodeDirty([r.st EXCEPT !.heap[r.id] = u.ino,
                                             !.files[ino.file] = u.f], r.id)
            ELSE markInodeDirty([r.st EXCEPT !.heap[r.id] = u.ino], r.id)
        update(r, ino) ==
            updated(r, ino,
                    updateInode(stat, ino, IF ino.kind = "reg"
                                           THEN r.st.files[ino.file]
                                           ELSE FreeFile))
        required(r) ==
            IF r.st.panic THEN r.st ELSE update(r, r.st.heap[r.id])
    IN  required(requireInode(st, path, Format(stat.mode)))

\* The dirty inodes are synced in the order the map iteration yields them,
\* which Go leaves unspecified: writeback yields the set of the possible
\* states after it.
RECURSIVE writebackIn(_, _)
writebackIn(st, order) ==
    IF order = <<>> THEN st
    ELSE writebackIn(Collect(Sync(st, Head(order))), Tail(order))

Orders(S) ==
    {o \in [1 .. Cardinality(S) -> S] :
        \A i, j \in 1 .. Cardinality(S) : i # j => o[i] # o[j]}

writeback(st) == {writebackIn(st, o) : o \in Orders(st.dirty)}

PutAttr(st, path, stat) == putAttr(st, normalizePath(path), stat)

PutNonExistant(st, path) == deleteInode(st, normalizePath(path))

fetchAttr(st, path) ==
    LET got(g) ==
            IF g.err THEN [err |-> "EIO", stat |-> NoStat]
            ELSE [err |-> "nil", stat |-> StatOf(g.st.heap[g.id])]
    IN  got(getInode(st, path))

FetchAttr(st, path) == fetchAttr(st, normalizePath(path))

\* The possible states after PutLink.
PutLink(st, path, dest) ==
    LET required(r) ==
            IF r.st.panic THEN {r.st}
            ELSE writeback(markInodeDirty(
                               [r.st EXCEPT !.heap[r.id].dest = dest], r.id))
    IN  required(requireInode(st, normalizePath(path), S_IFLNK))

\* FetchLink without the format check
FetchLink_AnyFormat(st, path) ==
    LET got(g) ==
            IF g.err THEN [err |-> "EIO", dest |-> ""]
            ELSE [err |-> "nil", dest |-> g.st.heap[g.id].dest]
    IN  got(getInode(st, normalizePath(path)))

FetchLink(st, path) ==
    LET got(g) ==
            IF g.err THEN [err |-> "EIO", dest |-> ""]
            ELSE IF Format(g.st.heap[g.id].mode) # S_IFLNK
            THEN [err |-> "EINVAL", dest |-> ""]
            ELSE [err |-> "nil", dest |-> g.st.heap[g.id].dest]
    IN  got(getInode(st, normalizePath(path)))

\* entries: a sequence of [name, stat]
RECURSIVE putChildren(_, _, _)
putChildren(st, path, entries) ==
    IF entries = <<>> \/ st.panic THEN st
    ELSE putChildren(putAttr(st, path \o "/" \o Head(entries).name,
                             Head(entries).stat),
                     path, Tail(entries))

\* The possible states after PutDir.
PutDir(st, path, entries) ==
    LET p == normalizePath(path)
        put(r, st2) ==
            IF st2.panic THEN {st2}
            ELSE writeback(markInodeDirty(st2, r.id))
        required(r) ==
            IF r.st.panic THEN {r.st}
            ELSE put(r, putChildren(
                            [r.st EXCEPT !.heap[r.id].children =
                                Sq([i \in 1 .. Len(entries) |-> entries[i].name])],
                            p, entries))
    IN  required(requireInode(st, p, S_IFDIR))

FetchDir(st, path) ==
    LET p == normalizePath(path)
        attrOf(a) == IF a.err # "nil" THEN NoStat ELSE a.stat
        entry(name) ==
            [name |-> name,
             stat |-> [attrOf(fetchAttr(st, p \o "/" \o name)) EXCEPT
                          !.blocks = 0]]
        listed(dir) ==
            IF Format(dir.mode) # S_IFDIR
            THEN [err |-> "ENOTDIR", entries |-> <<>>]
            ELSE [err |-> "nil",
                  entries |-> Sq([i \in 1 .. Len(dir.children) |->
                                    entry(dir.children[i])])]
        got(g) ==
            IF g.err THEN [err |-> "EIO", entries |-> <<>>]
            ELSE listed(g.st.heap[g.id])
    IN  got(getInode(st, p))

\* O_CREATE without O_EXCL: an existing .data file is opened as it is.
openFileCachedFile(st, id) ==
    LET name == getStoragePath(st.heap[id].storage_path, ".data")
        h == SmallestFree(FreeHandles(st))
        fid == IF name \in DOMAIN st.disk THEN st.disk[name]
               ELSE SmallestFree(FreeFiles(st))
        st1 == IF name \in DOMAIN st.disk THEN st
               ELSE [st EXCEPT !.files[fid] = NewDataFile,
                               !.disk = Put(@, name, fid)]
    IN  [st |-> [st1 EXCEPT !.handles[h] =
                    [inode |-> id, refcnt |-> 1, file |-> fid,
                     open |-> TRUE, held |-> 0]],
         h |-> h]

incRef(st, h) == [st EXCEPT !.handles[h].refcnt = (@ + 1) % U64]

\* close: file.Sync, inode.Sync, file.Close
close(st, h) ==
    LET id == st.handles[h].inode IN
    [st EXCEPT !.files[st.heap[id].file] = fileInode_Sync(st.heap[id], @),
               !.handles[h].open = FALSE]

decRef(st, h) ==
    LET st1 == [st EXCEPT !.handles[h].refcnt = SubU64(@, 1)] IN
    IF st1.handles[h].refcnt = 0
    THEN [close(st1, h) EXCEPT !.heap[st.handles[h].inode].handle = 0]
    ELSE st1

\* Returns the state, the handle (0: none) and the error.
OpenFile(st, path) ==
    LET opened(g, o) ==
            [st |-> [o.st EXCEPT !.heap[g.id].handle = o.h], h |-> o.h,
             err |-> "nil"]
        found(g, finode) ==
            IF Format(finode.mode) # S_IFREG
            THEN [st |-> st, h |-> 0, err |-> "ENOSYS"]
            ELSE IF finode.handle # 0
            THEN [st |-> incRef(g.st, finode.handle), h |-> finode.handle,
                  err |-> "nil"]
            ELSE opened(g, openFileCachedFile(g.st, g.id))
        got(g) ==
            IF g.err THEN [st |-> st, h |-> 0, err |-> "EIO"]
            ELSE found(g, g.st.heap[g.id])
    IN  got(getInode(st, normalizePath(path)))

\* FileCache.Close followed by NewFileCache on the same directory: the
\* possible states after it.
Close(st) == {[w EXCEPT !.inodes = EmptyFn, !.dirty = {}] : w \in writeback(st)}


(***************************************************************************)
(* Inputs.                                                                 *)
(***************************************************************************)
MaxBytes == MaxBlocks * BLOCK_SIZE

\* Length of the longest buffer handed to PutData.
MaxLen == 3

\* The buffers: k bytes of value v (0 is kept for bytes never written).
Buffers == {Sq([i \in 1 .. k |-> v]) : k \in 0 .. MaxLen, v \in {1, 2}}

PlainBuffers == {b \in Buffers : \A i \in 1 .. Len(b) : b[i] = 1}

NoSource == [ready |-> FALSE, error |-> "nil", stat |-> NoStat]

NoThreads == << >>

NoLocks == [manager |-> 0, inode |-> 0]

\* The parts of the state an operation of the cache package never touches.
CacheOnly == UNCHANGED << source, thr, locks >>

RegObjs == {i \in ObjIds : heap[i].kind = "reg"}

HeldHandles == {h \in HandleIds : handles[h].held > 0}

(***************************************************************************)
(* A regular inode and its handle on their own, as file_test.go and the    *)
(* fileInode tests set them up: createEmptyInode, openFileCachedFile.      *)
(***************************************************************************)
EmptySt ==
    [inodes |-> EmptyFn, dirty |-> {},
     heap |-> Sq([i \in ObjIds |-> FreeInode]),
     handles |-> Sq([h \in HandleIds |-> FreeHandle]),
     disk |-> EmptyFn,
     files |-> Sq([f \in FileIds |-> FreeFile]),
     panic |-> FALSE, pinned |-> {}]

FileSt ==
    LET c == createEmptyInode(EmptySt, "/file", S_IFREG)
        o == openFileCachedFile(c.st, c.id)
    IN  [o.st EXCEPT !.handles[o.h].held = 1]

InitFile ==
    /\ inodes = FileSt.inodes
    /\ dirtyInodes = FileSt.dirty
    /\ heap = FileSt.heap
    /\ handles = FileSt.handles
    /\ disk = FileSt.disk
    /\ files = FileSt.files
    /\ puts = Fn([i \in 0 .. (MaxBytes - 1) |-> 0])
    /\ source = NoSource
    /\ thr = NoThreads
    /\ locks = NoLocks
    /\ last = NoLast

\* fileCachedFile.PutData; every byte of the buffer reaches the file
PutDataDone(h, r) ==
    /\ Commit(r.st, [NoLast EXCEPT !.op = "PutData", !.h = h, !.err = r.err])
    /\ CacheOnly

Recorded(r, data, position) ==
    IF r.err = "nil"
    THEN Fn([i \in DOMAIN puts |->
               IF i >= position /\ i < position + Len(data)
               THEN data[i - position + 1] ELSE puts[i]])
    ELSE puts

DoPutData(h, data, position) ==
    /\ position + Len(data) <= MaxBytes
    /\ PutDataDone(h, PutData(St, h, data, position, Len(data)))
    /\ puts' = Recorded(PutData(St, h, data, position, Len(data)), data, position)

\* fileCachedFile.FetchData into a buffer of `length` bytes
DoFetchData(h, length, position) ==
    LET r == FetchData(St, h, length, position) IN
    /\ Commit([St EXCEPT !.panic = (r.err = "panic")],
              [NoLast EXCEPT !.op = "FetchData", !.h = h, !.err = r.err])
    /\ UNCHANGED puts
    /\ CacheOnly

\* fileInode.Resize, called on the inode directly
DoResize(id, nbytes) ==
    LET r == Resize(heap[id], files[heap[id].file], nbytes) IN
    /\ Commit([St EXCEPT !.heap[id] = r.ino, !.files[heap[id].file] = r.f],
              [NoLast EXCEPT !.op = "Resize"])
    /\ UNCHANGED puts
    /\ CacheOnly

\* fileInode.Discard, called on the inode directly
DoDiscard(id, start, end) ==
    LET r == fileInode_Discard(heap[id], files[heap[id].file], start, end) IN
    /\ Commit([St EXCEPT !.heap[id] = r.ino, !.files[heap[id].file] = r.f],
              [NoLast EXCEPT !.op = "Discard"])
    /\ UNCHANGED puts
    /\ CacheOnly

PutDataStep ==
    \E h \in HeldHandles, data \in Buffers, position \in 0 .. MaxBytes :
        DoPutData(h, data, position)

\* PutData of buffers of one byte value
PutPlainStep ==
    \E h \in HeldHandles, data \in PlainBuffers, position \in 0 .. MaxBytes :
        DoPutData(h, data, position)

FetchDataStep ==
    \E h \in HeldHandles, length \in 1 .. MaxLen, position \in 0 .. MaxBytes :
        DoFetchData(h, length, position)

ResizeStep == \E id \in RegObjs, nbytes \in 0 .. MaxBytes : DoResize(id, nbytes)

DiscardStep ==
    \E id \in RegObjs, start \in Blocks, end \in 0 .. MaxBlocks :
        DoDiscard(id, start, end)

\* PutData and FetchData on one handle
NextData == PutDataStep \/ FetchDataStep

SpecData == InitFile /\ [][NextData]_vars

\* PutData on one handle, Resize and Discard on its inode
NextFile == PutPlainStep \/ ResizeStep \/ DiscardStep

SpecFile == InitFile /\ [][NextFile]_vars


(***************************************************************************)
(* Properties of a regular inode and its handle.                           *)
(***************************************************************************)
AvailableBlocks(ino) ==
    {b \in Blocks : b < SizeBlocks(ino) /\ readACTR(files[ino.file].bm[b]) > 0}

\* C1: for every regular inode, after any sequence of PutData, Resize and
\* Discard, the number of blockmap entries with ACTR > 0 among the blocks
\* [0, SizeBlocks) equals what Blocks() reports.
C1_BlocksCountsAvailable ==
    \A id \in RegObjs :
        Cardinality(AvailableBlocks(heap[id])) = fileInode_Blocks(heap[id])

\* the blocks that overlap the bytes [position, position + n)
Overlapping(position, n) ==
    {b \in Blocks : n > 0 /\ b * BLOCK_SIZE < position + n
                          /\ (b + 1) * BLOCK_SIZE > position}

FetchReturnsWhatWasPut(h, length, position) ==
    LET r == FetchData(St, h, length, position)
        ino == heap[handles[h].inode]
        avail(b) == fileInode_IsAvailable(ino, files[ino.file], b)
    IN  /\ r.err # "panic"
        /\ \A b \in Overlapping(position, r.n) : avail(b)
        /\ \A i \in 1 .. r.n : /\ puts[position + i - 1] # 0
                               /\ r.data[i] = puts[position + i - 1]
        /\ (~avail(position \div BLOCK_SIZE) \/ position >= ino.size)
              => (r.n = 0 /\ r.err = "EIO")

\* C7: after every sequence of PutData calls and for every position and
\* buffer length, FetchData returns n bytes such that every block that
\* overlaps [position, position + n) is available and the bytes are those
\* most recently put at their offsets; when the block of position is not
\* available or position is at or beyond the end of the cached range, it
\* returns 0 bytes and an I/O error.
C7_FetchDataServesPutBytes ==
    \A h \in HeldHandles, length \in 1 .. MaxBytes, position \in 0 .. MaxBytes :
        FetchReturnsWhatWasPut(h, length, position)

\* C8: after every sequence of PutData calls (append, write-and-extend,
\* random write, aligned or not), an available block contains no hole: every
\* byte of it below the end of the file was written by a PutData.
C8_AvailableBlockHasNoHole ==
    \A h \in HeldHandles :
        \A b \in AvailableBlocks(heap[handles[h].inode]) :
            \A o \in (b * BLOCK_SIZE) .. ((b + 1) * BLOCK_SIZE - 1) :
                o < Len(files[handles[h].file].bytes)
                    => files[handles[h].file].bytes[o + 1] # 0


(***************************************************************************)
(* The cache manager: a FileCache on an empty cache directory and the      *)
(* handles OpenFile returned.                                              *)
(***************************************************************************)
\* The paths the operations are called with, spelled without the leading
\* slash.
PathArgs == {"d"}

Stat(mode, time, sz) ==
    [mode |-> mode, mtime |-> time, atime |-> time + 1, ctime |-> time + 2,
     size |-> sz, uid |-> 10 + time, gid |-> 20 + time, blocks |-> 1]

\* rwsr-xr-x regular file (setuid), rwxr-xr-t directory (sticky), symlink
Stats ==
    {Stat(S_IFREG + 2541, 1, 4), Stat(S_IFDIR + 1005, 1, 0),
     Stat(S_IFLNK + 511, 1, 1)}

Dests == {"t"}

\* The entry lists PutDir is called with.
EntryLists ==
    {<< >>, << [name |-> "x", stat |-> Stat(S_IFLNK + 511, 1, 1)] >>}

InitCache ==
    /\ inodes = EmptyFn
    /\ dirtyInodes = {}
    /\ heap = EmptySt.heap
    /\ handles = EmptySt.handles
    /\ disk = EmptyFn
    /\ files = EmptySt.files
    /\ puts = Fn([i \in 0 .. (MaxBytes - 1) |-> 0])
    /\ source = NoSource
    /\ thr = NoThreads
    /\ locks = NoLocks
    /\ last = NoLast

Op(name, path) == [NoLast EXCEPT !.op = name, !.path = path]

Quiet == UNCHANGED << puts, source, thr, locks >>

DoPutAttr(path, stat) ==
    /\ Commit(PutAttr(St, path, stat), [Op("PutAttr", path) EXCEPT !.stat = stat])
    /\ Quiet

DoPutNonExistant(path) ==
    /\ Commit(PutNonExistant(St, path), Op("PutNonExistant", path))
    /\ Quiet

DoFetchAttr(path) ==
    /\ Commit(St, Op("FetchAttr", path))
    /\ Quiet

DoPutLink(path, dest) ==
    /\ \E after \in PutLink(St, path, dest) : Commit(after, Op("PutLink", path))
    /\ Quiet

DoFetchLink(path) ==
    /\ Commit(St, Op("FetchLink", path))
    /\ Quiet

DoPutDir(path, entries) ==
    /\ \E after \in PutDir(St, path, entries) : Commit(after, Op("PutDir", path))
    /\ Quiet

DoFetchDir(path) ==
    /\ Commit(St, Op("FetchDir", path))
    /\ Quiet

\* The client keeps the handle OpenFile returns.
Opened(o) ==
    IF o.err = "nil" THEN [o.st EXCEPT !.handles[o.h].held = @ + 1] ELSE o.st

DoOpenFile(path) ==
    /\ Commit(Opened(OpenFile(St, path)),
              [Op("OpenFile", path) EXCEPT !.h = OpenFile(St, path).h,
                                           !.err = OpenFile(St, path).err])
    /\ Quiet

\* fileCachedFile.Close, by a client that holds the handle
DoHandleClose(h) ==
    /\ Commit([decRef(St, h) EXCEPT !.handles[h].held = @ - 1],
              [NoLast EXCEPT !.op = "HandleClose", !.h = h])
    /\ Quiet

DoClose ==
    /\ \E after \in Close(St) : Commit(after, Op("Close", ""))
    /\ Quiet

PutAttrStep == \E path \in PathArgs, stat \in Stats : DoPutAttr(path, stat)

PutNonExistantStep == \E path \in PathArgs : DoPutNonExistant(path)

FetchAttrStep == \E path \in PathArgs : DoFetchAttr(path)

PutLinkStep == \E path \in PathArgs, dest \in Dests : DoPutLink(path, dest)

FetchLinkStep == \E path \in PathArgs : DoFetchLink(path)

PutDirStep == \E path \in PathArgs, entries \in EntryLists : DoPutDir(path, entries)

FetchDirStep == \E path \in PathArgs : DoFetchDir(path)

OpenFileStep == \E path \in PathArgs : DoOpenFile(path)

HandleCloseStep == \E h \in HeldHandles : DoHandleClose(h)

\* PutData of a block at the start of a block
PutBlockStep ==
    \E h \in HeldHandles :
        /\ PutDataDone(h, PutData(St, h, << 1, 1, 1 >>, 0, BLOCK_SIZE))
        /\ UNCHANGED puts

\* FetchData of a block at the start of a block
FetchBlockStep ==
    \E h \in HeldHandles, position \in {0, BLOCK_SIZE} :
        DoFetchData(h, BLOCK_SIZE, position)

NextCache ==
    \/ PutAttrStep
    \/ PutNonExistantStep
    \/ FetchAttrStep
    \/ PutLinkStep
    \/ FetchLinkStep
    \/ PutDirStep
    \/ FetchDirStep
    \/ OpenFileStep
    \/ HandleCloseStep
    \/ PutBlockStep
    \/ FetchBlockStep
    \/ DoClose

SpecCache == InitCache /\ [][NextCache]_vars


(***************************************************************************)
(* Properties of the cache manager.                                        *)
(***************************************************************************)
\* C2: PutNonExistant(p) immediately followed by FetchAttr(p) returns a
\* non-nil error and no stat, whatever inode p had and wherever it was held.
C2_FetchAttrFailsAfterPutNonExistant ==
    (last.op = "PutNonExistant" /\ last.err = "nil")
        => /\ FetchAttr(St, last.path).err # "nil"
           /\ FetchAttr(St, last.path).stat = NoStat

\* The fields PutAttr sets, with the mode taken apart into format and
\* permission bits.
SameAttrs(a, s) ==
    /\ Format(a.mode) = Format(s.mode)
    /\ a.mode % 512 = s.mode % 512
    /\ a.mtime = s.mtime /\ a.atime = s.atime /\ a.ctime = s.ctime
    /\ a.size = s.size /\ a.uid = s.uid /\ a.gid = s.gid

\* C3: PutAttr(p, s) immediately followed by FetchAttr(p) returns the
\* attributes of s and not the ones stored before, also in a reopened cache
\* that has the inode of p only on disk.
C3_FetchAttrReturnsNewAttrs ==
    (last.op = "PutAttr" /\ last.err = "nil")
        => /\ FetchAttr(St, last.path).err = "nil"
           /\ SameAttrs(FetchAttr(St, last.path).stat, last.stat)

\* The number of cached blocks of the inode FetchAttr(p) answers from.
CachedBlocks(path) ==
    LET g == getInode(St, normalizePath(path))
        ino == g.st.heap[g.id]
    IN  IF g.err \/ ino.kind # "reg" THEN 0
        ELSE Cardinality({b \in Blocks : b < SizeBlocks(ino) /\
                            readACTR(g.st.files[ino.file].bm[b]) > 0})

\* C4: PutAttr(p, s) followed by FetchAttr(p) returns a stat equal to s in
\* mode (all bits, setuid, setgid and sticky included), times, size, uid and
\* gid, with Blocks() 0 for a non-regular inode and the number of cached
\* blocks for a regular one.
C4_PutAttrFetchAttrRoundTrip ==
    (last.op = "PutAttr" /\ last.err = "nil")
        => /\ FetchAttr(St, last.path).err = "nil"
           /\ [FetchAttr(St, last.path).stat EXCEPT !.blocks = 0]
                = [last.stat EXCEPT !.blocks = 0]
           /\ FetchAttr(St, last.path).stat.blocks = CachedBlocks(last.path)

\* What a client reads of a block of p: it opens p and fetches the block.
ReadBlock(st, path, position) ==
    LET o == OpenFile(st, path)
        r == FetchData(o.st, o.h, BLOCK_SIZE, position)
    IN  IF o.err # "nil" THEN [n |-> 0, data |-> << >>, err |-> o.err]
        ELSE [n |-> r.n, data |-> r.data, err |-> r.err]

\* Everything the cache answers about the paths the model uses.
Fetches(st) ==
    [attr |-> [p \in {"d", "d/x"} |-> FetchAttr(st, p)],
     link |-> [p \in {"d", "d/x"} |-> FetchLink(st, p)],
     dir |-> [p \in {"d", "d/x"} |-> FetchDir(st, p)],
     data |-> [p \in {"d", "d/x"} |-> ReadBlock(st, p, 0)]]

\* C5: a cache opened on the directory after Close answers FetchAttr,
\* FetchLink, FetchDir and FetchData as the old cache did immediately before
\* Close.
C5_CloseKeepsFetches == \A after \in Close(St) : Fetches(after) = Fetches(St)

\* The state after two consecutive OpenFile(path) by clients that keep the
\* handles.
OpenTwice(path) ==
    LET o1 == OpenFile(St, path)
        o2 == OpenFile(Opened(o1), path)
    IN  [first |-> o1, second |-> o2, st |-> Opened(o2)]

\* C9: for a regular inode at p of which no handle is open (the inode in the
\* path map or only on disk), two consecutive OpenFile(p) return the same
\* handle with refcount 2, and after Close of one of the two the handle is
\* open and usable.
C9_OpenFileSharesHandle ==
    \A path \in PathArgs :
        LET t == OpenTwice(path)
            h == t.first.h
            closed == decRef(t.st, t.second.h)
        IN  (/\ HeldHandles = {}
             /\ FetchAttr(St, path).err = "nil"
             /\ Format(FetchAttr(St, path).stat.mode) = S_IFREG)
                => /\ t.first.err = "nil" /\ t.second.err = "nil"
                   /\ t.second.h = h
                   /\ t.st.handles[h].refcnt = 2
                   /\ closed.handles[h].open
                   /\ FetchData(closed, h, BLOCK_SIZE, 0).err # "closed"


(***************************************************************************)
(* CacheLayer, the overlay of the cache on a source filesystem.  The       *)
(* source holds one file; it is ready or not, and its Lstat answers with   *)
(* the stat of the file or fails with the error the source is in.          *)
(***************************************************************************)
Sources == [ready : BOOLEAN, error : {"nil", "EIO", "ENOENT"}, stat : Stats]

\* layer.FileSystem.Lstat of the source
source_Lstat(src) ==
    IF src.error = "nil" THEN [stat |-> src.stat, err |-> "nil"]
    ELSE [stat |-> NoStat, err |-> src.error]

\* CacheLayer.Lstat: the state after, the stat and the error returned, and
\* the calls it made to the source (fs) and to the cache, in order
Lstat(st, src, path) ==
    LET a == FetchAttr(st, path)
        r == source_Lstat(src)
    IN  IF ~src.ready
        THEN [st |-> st, stat |-> a.stat, err |-> a.err,
              calls |-> << "cache.FetchAttr" >>]
        ELSE IF r.err = "nil"
        THEN [st |-> PutAttr(st, path, r.stat), stat |-> r.stat, err |-> r.err,
              calls |-> << "fs.Lstat", "cache.PutAttr" >>]
        ELSE [st |-> PutNonExistant(st, path), stat |-> r.stat, err |-> r.err,
              calls |-> << "fs.Lstat", "cache.PutNonExistant" >>]

InitOverlay ==
    /\ inodes = EmptyFn
    /\ dirtyInodes = {}
    /\ heap = EmptySt.heap
    /\ handles = EmptySt.handles
    /\ disk = EmptyFn
    /\ files = EmptySt.files
    /\ puts = Fn([i \in 0 .. (MaxBytes - 1) |-> 0])
    /\ source \in {src \in Sources : src.ready /\ src.error = "nil"}
    /\ thr = NoThreads
    /\ locks = NoLocks
    /\ last = NoLast

LstatDone(path, r) ==
    /\ Commit(r.st, [Op("Lstat", path) EXCEPT !.stat = r.stat, !.err = r.err])
    /\ Quiet

LstatStep == \E path \in PathArgs : LstatDone(path, Lstat(St, source, path))

\* The source becomes ready or unavailable, or its file changes.
SourceStep ==
    /\ \E src \in Sources \ {source} : source' = src
    /\ last' = [NoLast EXCEPT !.op = "Source"]
    /\ UNCHANGED << inodes, dirtyInodes, heap, handles, disk, files, puts,
                    thr, locks >>

NextOverlay == LstatStep \/ SourceStep

SpecOverlay == InitOverlay /\ [][NextOverlay]_vars

\* The states the source is unavailable in: not ready, or Lstat failing EIO.
Unavailable == {src \in Sources : ~src.ready \/ src.error = "EIO"}

\* C6: once Lstat(p) has succeeded with the source ready, a Lstat(p) issued
\* while the source is unavailable returns the cached attributes without an
\* error.
C6_LstatServedFromCache ==
    (last.op = "Lstat" /\ last.err = "nil" /\ source.ready /\ source.error = "nil")
        => \A src \in Unavailable :
              /\ Lstat(St, src, last.path).err = "nil"
              /\ Lstat(St, src, last.path).stat = FetchAttr(St, last.path).stat


(***************************************************************************)
(* Threads.  A cache holding the regular inode of one path; every thread   *)
(* calls OpenFile of the path or Close of a handle a client holds, and the *)
(* calls proceed statement by statement.  FileCache.lock is held for the   *)
(* whole of OpenFile, the mutex of the inode within IncRef and Close.      *)
(* OpenFile reads finode.handle without the mutex of the inode while Close *)
(* writes it: each of these reads yields the value in memory or the value  *)
(* an earlier read of the same call yielded.                               *)
(***************************************************************************)
Threads == {1, 2}

ThreadPath == "d"

\* reg: what the first read of finode.handle yielded; h: the handle the
\* call works on
Idle == [pc |-> "idle", reg |-> 0, h |-> 0]

Refs(t) == {t[u].reg : u \in DOMAIN t} \cup {t[u].h : u \in DOMAIN t}

InitThreads ==
    \E fin \in {Final(PutAttr(EmptySt, ThreadPath, Stat(S_IFREG + 420, 1, 0)))} :
    /\ inodes = fin.inodes
    /\ dirtyInodes = fin.dirty
    /\ heap = fin.heap
    /\ handles = fin.handles
    /\ disk = fin.disk
    /\ files = fin.files
    /\ puts = Fn([i \in 0 .. (MaxBytes - 1) |-> 0])
    /\ source = NoSource
    /\ thr = Fn([t \in Threads |-> Idle])
    /\ locks = NoLocks
    /\ last = NoLast

\* A nil pointer dereference ends the process and with it every thread.
ThreadInstall(fin, t, lk, l) ==
    /\ Install(fin, l)
    /\ thr' = IF fin.panic THEN Fn([u \in Threads |-> [Idle EXCEPT !.pc = "dead"]])
              ELSE Fn([u \in Threads |-> [t[u] EXCEPT !.reg = fin.hmap[@],
                                                      !.h = fin.hmap[@]]])
    /\ locks' = IF fin.panic THEN NoLocks ELSE lk
    /\ UNCHANGED << puts, source >>

\* Thread t takes a step that leaves the state st, its locals loc and the
\* locks lk.
ThreadCommit(st, t, loc, lk, l) ==
    \E fin \in {Final([st EXCEPT !.pinned = Refs([thr EXCEPT ![t] = loc]) \ {0}])} :
        ThreadInstall(fin, [thr EXCEPT ![t] = loc], lk,
                      IF fin.panic THEN [l EXCEPT !.err = "panic"] ELSE l)

Step(t, st, loc, lk) == ThreadCommit(st, t, loc, lk, NoLast)

\* The values a read of finode.handle by thread t can yield.
ReadHandle(t, id) == {heap[id].handle, thr[t].reg}

\* OpenFile: m.lock.Lock()
OpenLock(t) ==
    /\ thr[t].pc = "idle"
    /\ locks.manager = 0
    /\ Step(t, St, [Idle EXCEPT !.pc = "o_get"], [locks EXCEPT !.manager = t])

\* OpenFile returns to its caller and the deferred m.lock.Unlock() runs.
Return(t, st, h, err) ==
    ThreadCommit(IF h # 0 THEN [st EXCEPT !.handles[h].held = @ + 1] ELSE st,
                 t, Idle, [locks EXCEPT !.manager = 0],
                 [NoLast EXCEPT !.op = "OpenFile", !.path = ThreadPath,
                                !.h = h, !.err = err])

\* OpenFile: getInode, the check of the mode and the test of finode.handle
OpenGet(t) ==
    LET g == getInode(St, normalizePath(ThreadPath))
        finode == g.st.heap[g.id]
    IN  /\ thr[t].pc = "o_get"
        /\ IF g.err THEN Return(t, St, 0, "EIO")
           ELSE IF Format(finode.mode) # S_IFREG THEN Return(t, St, 0, "ENOSYS")
           ELSE IF finode.handle # 0
           THEN Step(t, g.st, [thr[t] EXCEPT !.pc = "o_incref",
                                             !.reg = finode.handle], locks)
           ELSE Step(t, g.st, [thr[t] EXCEPT !.pc = "o_open"], locks)

\* OpenFile: finode.handle.IncRef() is called; IncRef of a nil handle
\* dereferences it and panics.
OpenIncRefCall(t) ==
    /\ thr[t].pc = "o_incref"
    /\ \E h \in ReadHandle(t, inodes[normalizePath(ThreadPath)]) :
          IF h = 0 THEN Step(t, [St EXCEPT !.panic = TRUE], thr[t], locks)
          ELSE Step(t, St, [thr[t] EXCEPT !.pc = "o_inclock", !.h = h], locks)

\* IncRef: m.lock()
OpenIncRefLock(t) ==
    /\ thr[t].pc = "o_inclock"
    /\ locks.inode = 0
    /\ Step(t, St, [thr[t] EXCEPT !.pc = "o_incbody"], [locks EXCEPT !.inode = t])

\* IncRef that returns without m.unlock()
OpenIncRefBody_KeepsLock(t) ==
    /\ thr[t].pc = "o_incbody"
    /\ Step(t, incRef(St, thr[t].h), [thr[t] EXCEPT !.pc = "o_ret"], locks)

\* IncRef: m.incRef() and the deferred m.unlock()
OpenIncRefBody(t) ==
    /\ thr[t].pc = "o_incbody"
    /\ Step(t, incRef(St, thr[t].h), [thr[t] EXCEPT !.pc = "o_ret"],
            [locks EXCEPT !.inode = 0])

\* OpenFile: return finode.handle, nil
OpenReturn(t) ==
    /\ thr[t].pc = "o_ret"
    /\ \E h \in ReadHandle(t, inodes[normalizePath(ThreadPath)]) :
          Return(t, St, h, "nil")

\* OpenFile: openFileCachedFile
OpenNew(t) ==
    LET o == openFileCachedFile(St, inodes[normalizePath(ThreadPath)]) IN
    /\ thr[t].pc = "o_open"
    /\ Step(t, o.st, [thr[t] EXCEPT !.pc = "o_set", !.h = o.h], locks)

\* OpenFile: finode.handle = f; return f, nil
OpenSet(t) ==
    /\ thr[t].pc = "o_set"
    /\ Return(t, [St EXCEPT !.heap[inodes[normalizePath(ThreadPath)]].handle =
                                thr[t].h],
              thr[t].h, "nil")

\* fileCachedFile.Close of a handle a client holds: m.lock()
CloseLock(t) ==
    /\ thr[t].pc = "idle"
    /\ locks.inode = 0
    /\ \E h \in HeldHandles :
          Step(t, [St EXCEPT !.handles[h].held = @ - 1],
               [Idle EXCEPT !.pc = "c_dec", !.h = h], [locks EXCEPT !.inode = t])

\* decRef: m.refcnt -= 1 and the test for zero
CloseDec(t) ==
    LET st1 == [St EXCEPT !.handles[thr[t].h].refcnt = SubU64(@, 1)] IN
    /\ thr[t].pc = "c_dec"
    /\ Step(t, st1,
            [thr[t] EXCEPT !.pc = IF st1.handles[thr[t].h].refcnt = 0
                                  THEN "c_close" ELSE "c_unlock"], locks)

\* decRef: m.close()
CloseFile(t) ==
    /\ thr[t].pc = "c_close"
    /\ Step(t, close(St, thr[t].h), [thr[t] EXCEPT !.pc = "c_nil"], locks)

\* decRef: m.inode.handle = nil
CloseNil(t) ==
    /\ thr[t].pc = "c_nil"
    /\ Step(t, [St EXCEPT !.heap[handles[thr[t].h].inode].handle = 0],
            [thr[t] EXCEPT !.pc = "c_unlock"], locks)

\* Close: the deferred m.unlock()
CloseUnlock(t) ==
    /\ thr[t].pc = "c_unlock"
    /\ ThreadCommit(St, t, Idle, [locks EXCEPT !.inode = 0],
                    [NoLast EXCEPT !.op = "HandleClose"])

NextThreads ==
    \E t \in Threads :
        \/ OpenLock(t)
        \/ OpenGet(t)
        \/ OpenIncRefCall(t)
        \/ OpenIncRefLock(t)
        \/ OpenIncRefBody(t)
        \/ OpenReturn(t)
        \/ OpenNew(t)
        \/ OpenSet(t)
        \/ CloseLock(t)
        \/ CloseDec(t)
        \/ CloseFile(t)
        \/ CloseNil(t)
        \/ CloseUnlock(t)

SpecThreads == InitThreads /\ [][NextThreads]_vars

\* C10: whatever the interleaving of OpenFile and Close, a handle OpenFile
\* returns has a refcount of at least 1 and an open .data file when it is
\* returned, and the .data file of a handle is closed only when as many
\* Close calls were made on it as OpenFile returned it.
C10_HandleOpenWhileHeld ==
    /\ (last.op = "OpenFile" /\ last.err = "nil")
          => /\ last.h # 0
             /\ handles[last.h].refcnt >= 1
             /\ handles[last.h].open
    /\ \A h \in HandleIds :
          (handles[h].inode # 0 /\ ~handles[h].open) => handles[h].held = 0


(***************************************************************************)
(* alignRead, the window the overlay asks the source for.  The inputs are  *)
(* a position, the length of the client's buffer and a block size; the     *)
(* arithmetic is int64 and stays far from its limits, the length being     *)
(* that of a buffer in memory.                                             *)
(***************************************************************************)
\* The largest position, buffer length and block size handed to alignRead.
MaxPos == 7

MaxAlignLen == 7

MaxBlockSize == 4

\* alignRead without `new_length += shift`
alignRead_KeepsLength(position, length, blocksize) ==
    LET shift == position % blocksize
        add == length % blocksize
    IN  [new_position |-> position - shift,
         new_length |-> IF add # 0 THEN length + blocksize - add ELSE length,
         offset |-> shift]

alignRead(position, length, blocksize) ==
    LET shift == position % blocksize
        add == (length + shift) % blocksize
    IN  [new_position |-> position - shift,
         new_length |-> IF add # 0 THEN length + shift + blocksize - add
                        ELSE length + shift,
         offset |-> shift]

AlignInputs ==
    [position : 0 .. MaxPos, length : 0 .. MaxAlignLen,
     blocksize : 1 .. MaxBlockSize]

NoWindow == [new_position |-> 0, new_length |-> 0, offset |-> 0]

\* source holds the arguments of the call, thr what it returned
InitAlign ==
    /\ inodes = EmptyFn
    /\ dirtyInodes = {}
    /\ heap = EmptySt.heap
    /\ handles = EmptySt.handles
    /\ disk = EmptyFn
    /\ files = EmptySt.files
    /\ puts = Fn([i \in 0 .. (MaxBytes - 1) |-> 0])
    /\ source \in AlignInputs
    /\ thr = NoWindow
    /\ locks = NoLocks
    /\ last = NoLast

AlignReadStep ==
    /\ last.op = "none"
    /\ thr' = alignRead(source.position, source.length, source.blocksize)
    /\ last' = [NoLast EXCEPT !.op = "alignRead"]
    /\ UNCHANGED << inodes, dirtyInodes, heap, handles, disk, files, puts,
                    source, locks >>

NextAlign == AlignReadStep

SpecAlign == InitAlign /\ [][NextAlign]_vars

Multiples(blocksize) ==
    {m \in 0 .. (MaxPos + MaxAlignLen + MaxBlockSize) : m % blocksize = 0}

\* C13: for every position >= 0, length >= 0 and block size B > 0 the
\* window alignRead returns starts at or before the position, ends at or
\* after position + length, starts at a multiple of B and has a multiple of
\* B as its length, offset is the distance from its start to the position,
\* and it is the smallest such window: it starts at the last multiple of B
\* at or before the position and ends at the first at or after the end.
C13_AlignReadSmallestWindow ==
    last.op = "alignRead" =>
        /\ thr.new_position <= source.position
        /\ thr.new_position + thr.new_length >= source.position + source.length
        /\ thr.new_position % source.blocksize = 0
        /\ thr.new_length % source.blocksize = 0
        /\ thr.offset = source.position - thr.new_position
        /\ \A m \in Multiples(source.blocksize) :
              /\ m <= source.position => m <= thr.new_position
              /\ m >= source.position + source.length
                    => m >= thr.new_position + thr.new_length

\* alignRead was called with a position off the block boundary and a length
\* that ends off it
C13_Witness ==
    /\ last.op = "alignRead"
    /\ source.position % source.blocksize # 0
    /\ (source.position + source.length) % source.blocksize # 0
    /\ source.length > source.blocksize
    /\ thr.new_length > source.length


(***************************************************************************)
(* CacheLayerFile, the file the overlay hands out: a handle of the cache   *)
(* (cacheside, 0 when nil) and a file of the source (fsside).  source      *)
(* holds the source's file: whether the overlay got one, the error its     *)
(* Read answers with and its bytes.                                        *)
(***************************************************************************)
SourceErrors == {"nil", "EIO", "ENOENT"}

SourceBytes == {<< >>, <<1, 2>>, <<1, 2, 1, 2, 1>>}

SourceFiles == [present : BOOLEAN, error : SourceErrors, bytes : SourceBytes]

\* every error counts as the source being unavailable
IsUnavailableError_Any(err) == err # "nil"

IsUnavailableError(err) == err = "EIO"

\* layer.File.Read of the source: ReadAt with io.EOF turned into nil
fsside_Read(src, count, position) ==
    IF src.error # "nil" THEN [data |-> << >>, n |-> 0, err |-> src.error]
    ELSE [ReadAt(src.bytes, position, count) EXCEPT !.err = "nil"]

\* Returns the state after, the count and the error Read returns, the bytes
\* copied into dest and the PutData calls made (data and position of each).
Read(st, h, src, length, position) ==
    LET plain(r) ==
            [st |-> st, n |-> r.n, data |-> r.data, err |-> r.err, put |-> << >>]
        fetched(r) ==
            [st |-> [st EXCEPT !.panic = (r.err = "panic")], n |-> r.n,
             data |-> r.data, err |-> r.err, put |-> << >>]
        copied(w, r, n, start, end) ==
            [st |-> PutData(st, h, r.data, w.new_position, Len(r.data)).st,
             n |-> n, data |-> SubSeq(r.data, start + 1, end), err |-> r.err,
             put |-> << [data |-> r.data, position |-> w.new_position] >>]
        sliced(w, r) ==
            IF w.offset > r.n THEN copied(w, r, 0, 0, 0)
            ELSE IF w.offset + length > r.n
            THEN copied(w, r, r.n - w.offset, w.offset, r.n)
            ELSE copied(w, r, r.n, w.offset, w.offset + length)
        answered(w, r) ==
            IF r.err # "nil"
            THEN IF IsUnavailableError(r.err)
                 THEN fetched(FetchData(st, h, length, position))
                 ELSE plain(r)
            ELSE sliced(w, r)
        aligned(w) ==
            answered(w, fsside_Read(src, w.new_length, w.new_position))
    IN  IF h = 0 THEN plain(fsside_Read(src, length, position))
        ELSE IF ~src.present THEN fetched(FetchData(st, h, length, position))
        ELSE aligned(alignRead(position, length, BLOCK_SIZE))

\* The reads whose window lies within the bytes the model keeps.
ReadArgs ==
    {a \in [length : 0 .. MaxLen, position : 0 .. (MaxBytes - 1)] :
        alignRead(a.position, a.length, BLOCK_SIZE).new_position
            + alignRead(a.position, a.length, BLOCK_SIZE).new_length <= MaxBytes}

InitRead ==
    /\ inodes = FileSt.inodes
    /\ dirtyInodes = FileSt.dirty
    /\ heap = FileSt.heap
    /\ handles = FileSt.handles
    /\ disk = FileSt.disk
    /\ files = FileSt.files
    /\ puts = Fn([i \in 0 .. (MaxBytes - 1) |-> 0])
    /\ source \in {src \in SourceFiles : src.present /\ src.error = "nil"}
    /\ thr = NoThreads
    /\ locks = NoLocks
    /\ last = NoLast

ReadDone(h, r) ==
    /\ Commit(r.st, [NoLast EXCEPT !.op = "Read", !.h = h, !.err = r.err])
    /\ UNCHANGED << puts, source, thr, locks >>

\* CacheLayerFile.Read with both sides, or with the cache side only
ReadStep ==
    \E h \in HeldHandles, a \in ReadArgs :
        ReadDone(h, Read(St, h, source, a.length, a.position))

\* CacheLayerFile.Read of a file the cache could not open
ReadSourceOnlyStep ==
    \E a \in ReadArgs :
        /\ source.present
        /\ ReadDone(0, Read(St, 0, source, a.length, a.position))

\* The source's file changes, fails, or is gone when the file is opened.
SourceFileStep ==
    /\ source' \in SourceFiles \ {source}
    /\ last' = [NoLast EXCEPT !.op = "Source"]
    /\ UNCHANGED << inodes, dirtyInodes, heap, handles, disk, files, puts,
                    thr, locks >>

NextRead == ReadStep \/ ReadSourceOnlyStep \/ SourceFileStep

SpecRead == InitRead /\ [][NextRead]_vars

Returned(r) == [n |-> r.n, data |-> r.data, err |-> r.err]

ReadFallsBack(h, length, position) ==
    /\ source.error = "EIO"
          => /\ Returned(Read(St, h, source, length, position))
                  = Returned(FetchData(St, h, length, position))
             /\ Read(St, h, source, length, position).put = << >>
    /\ source.error \notin {"nil", "EIO"}
          => /\ Read(St, h, source, length, position).err = source.error
             /\ Read(St, h, source, length, position).put = << >>

\* C11: in the overlay Read with a source side and a cache side, when the
\* source Read fails with EIO the result is exactly that of the cache's
\* FetchData(dest, position) and PutData is not called; when it fails with
\* another error, that error is returned and PutData is not called.
C11_ReadFallsBackOnEIO ==
    source.present =>
        \A h \in HeldHandles, a \in ReadArgs :
            ReadFallsBack(h, a.length, a.position)

\* a Read was answered from the cache, without an error, while the source
\* failed with EIO
C11_Witness ==
    /\ last.op = "Read"
    /\ last.h # 0
    /\ last.err = "nil"
    /\ source.present
    /\ source.error = "EIO"
    /\ \E a \in ReadArgs :
          /\ a.length > 0
          /\ Read(St, last.h, source, a.length, a.position).err = "nil"
          /\ Read(St, last.h, source, a.length, a.position).n = a.length

ReadPassesThrough(h, length, position, w, k) ==
    /\ Read(St, h, source, length, position).put =
          << [data |-> SubSeq(source.bytes, w.new_position + 1, w.new_position + k),
              position |-> w.new_position] >>
    /\ Read(St, h, source, length, position).err = "nil"
    /\ Read(St, h, source, length, position).n = Min(length, Max(0, k - w.offset))
    /\ Read(St, h, source, length, position).data =
          SubSeq(source.bytes, position + 1,
                 position + Min(length, Max(0, k - w.offset)))

\* C12: in the overlay Read with both sides, when the source Read of the
\* aligned window returns k bytes without an error, PutData is called once
\* with those k bytes at the aligned position, and Read returns
\* n = min(len(dest), max(0, k - offset)) bytes, the bytes of the source at
\* [position, position + n).
C12_ReadReturnsSourceBytes ==
    (source.present /\ source.error = "nil") =>
        \A h \in HeldHandles, a \in ReadArgs :
            ReadPassesThrough(
                h, a.length, a.position,
                alignRead(a.position, a.length, BLOCK_SIZE),
                fsside_Read(source,
                            alignRead(a.position, a.length, BLOCK_SIZE).new_length,
                            alignRead(a.position, a.length, BLOCK_SIZE).new_position).n)


(***************************************************************************)
(* Short reads of FetchData.                                               *)
(***************************************************************************)
\* r: what FetchData returned for a buffer of `length` bytes at `position`
ShortReadTellsCause(ino, r, length, position) ==
    (r.err # "panic" /\ r.n < length) =>
        /\ (/\ r.n > 0
            /\ position + r.n = ino.size
            /\ \A b \in Overlapping(position, r.n) :
                  fileInode_IsAvailable(ino, files[ino.file], b))
              => r.err = "nil"
        /\ (/\ position + r.n < ino.size
            /\ ~fileInode_IsAvailable(ino, files[ino.file],
                                      (position + r.n) \div BLOCK_SIZE))
              => r.err = "EIO"

\* C14: FetchData tells the two causes of a short read apart: when it
\* returns fewer bytes than the buffer holds because the read reached the
\* end of the file, all blocks up to there being available, it returns no
\* error; when the next block is not cached, it returns the bytes read
\* together with an I/O error.
C14_ShortReadTellsCause ==
    \A h \in HeldHandles, length \in 1 .. MaxLen, position \in 0 .. MaxBytes :
        ShortReadTellsCause(heap[handles[h].inode],
                            FetchData(St, h, length, position),
                            length, position)


(***************************************************************************)
(* When PutData rejects a write.                                           *)
(***************************************************************************)
\* The block of byte offset `byte` starts or ends off that offset and is
\* not available.
Incomplete(ino, byte, block) ==
    /\ byte % BLOCK_SIZE # 0
    /\ ~fileInode_IsAvailable(ino, files[ino.file], block)

\* S: the current size of the .data file
MustBeAligned(ino, S, data, position) ==
    IF position = S THEN FALSE
    ELSE IF position + Len(data) > S
    THEN Incomplete(ino, position, position \div BLOCK_SIZE)
    ELSE \/ Incomplete(ino, position, position \div BLOCK_SIZE)
         \/ Incomplete(ino, position + Len(data),
                       (position + Len(data) + BLOCK_SIZE - 1) \div BLOCK_SIZE - 1)

\* PutData on one handle while PutAttr sets the size of its inode
\* (updateInode, SetSize, Resize)
NextSized == PutPlainStep \/ ResizeStep

SpecSized == InitFile /\ [][NextSized]_vars

\* C15: PutData(data, position) on a file of size S is rejected with
\* ErrMustBeAligned in exactly these cases: never when position = S; when
\* position # S and position + len > S, iff the first block is unaligned
\* and not available; otherwise (position + len <= S), iff the first block
\* is unaligned and not available or the last block is unaligned and not
\* available.
C15_PutDataRejectsUnaligned ==
    \A h \in {x \in HeldHandles : handles[x].open}, data \in Buffers,
       position \in 0 .. MaxBytes :
        position + Len(data) <= MaxBytes =>
            ((PutData(St, h, data, position, Len(data)).err = "ErrMustBeAligned")
                <=> MustBeAligned(heap[handles[h].inode], size(St, h), data, position))


(***************************************************************************)
(* The size of the .data file and the size attribute of its inode.         *)
(***************************************************************************)
\* C16: for every regular inode, after any sequence of PutAttr, OpenFile
\* and PutData, the logical size of the .data file equals the size
\* attribute of the inode.
C16_DataSizeIsInodeSize ==
    \A h \in HandleIds :
        (handles[h].inode # 0 /\ handles[h].open)
            => Len(files[handles[h].file].bytes) = heap[handles[h].inode].size


(***************************************************************************)
(* Directories: what FetchDir and FetchAttr answer after PutDir.           *)
(***************************************************************************)
\* the stat without its block count, which the cache sets itself
Attrs(stat) == [stat EXCEPT !.blocks = 0]

\* after: a state PutDir(path, entries) leaves
ListsEntries(after, path, entries) ==
    /\ FetchDir(after, path).err = "nil"
    /\ Len(FetchDir(after, path).entries) = Len(entries)
    /\ \A i \in 1 .. Len(entries) :
          /\ FetchDir(after, path).entries[i].name = entries[i].name
          /\ Attrs(FetchDir(after, path).entries[i].stat) = Attrs(entries[i].stat)
          /\ FetchAttr(after, path \o "/" \o entries[i].name).err = "nil"
          /\ Attrs(FetchAttr(after, path \o "/" \o entries[i].name).stat)
                = Attrs(entries[i].stat)

\* C17: after PutDir(d, entries) with pairwise distinct names, FetchDir(d)
\* on the same cache returns exactly len(entries) entries in the given
\* order, each with the name, mode, times, size, uid and gid of the input
\* entry, and FetchAttr(d/name) returns the same attributes for each entry.
C17_FetchDirReturnsPutEntries ==
    \A path \in PathArgs, entries \in EntryLists :
        \A after \in PutDir(St, path, entries) :
            ~after.panic => ListsEntries(after, path, entries)



\* the names an entry list gives
EntryNames(entries) == {entries[i].name : i \in 1 .. Len(entries)}

\* second: a state PutDir(path, E2) leaves when it follows PutDir(path, E1)
DroppedAreGone(second, path, E1, E2) ==
    \A name \in EntryNames(E1) \ EntryNames(E2) :
        FetchAttr(second, path \o "/" \o name).err # "nil"

\* C18: PutDir is invasive: after PutDir(d, E1) followed by PutDir(d, E2),
\* every entry named in E1 but not in E2 has been deleted from the cache,
\* so FetchAttr(d/name) fails for each such name.
C18_PutDirDeletesDroppedEntries ==
    \A path \in PathArgs, E1 \in EntryLists, E2 \in EntryLists :
        \A first \in PutDir(St, path, E1) :
            ~first.panic =>
                \A second \in PutDir(Final(first), path, E2) :
                    ~second.panic => DroppedAreGone(second, path, E1, E2)



\* the paths below path that entry lists of the model name
Below(path) == UNION {{path \o "/" \o name : name \in EntryNames(entries)} :
                          entries \in EntryLists}

\* the states a Put of another type than directory leaves
ReplacedByOther(st, path) ==
    {PutAttr(st, path, stat) : stat \in {s \in Stats : Format(s.mode) # S_IFDIR}}
        \cup UNION {PutLink(st, path, dest) : dest \in Dests}

IsCachedDir(st, path) ==
    /\ FetchAttr(st, path).err = "nil"
    /\ Format(FetchAttr(st, path).stat.mode) = S_IFDIR

\* C20: when a Put operation replaces a directory inode at d by an inode of
\* another type, all children of d are purged from the cache: afterwards
\* FetchAttr fails for every path below d that was cached before.
C20_ReplacingDirPurgesChildren ==
    \A path \in PathArgs :
        IsCachedDir(St, path) =>
            \A after \in ReplacedByOther(St, path), below \in Below(path) :
                (~after.panic /\ FetchAttr(St, below).err = "nil")
                    => FetchAttr(after, below).err # "nil"



\* the states a Put that asks for the given format at path can leave
PutsOfFormat(st, path, format) ==
    {PutAttr(st, path, stat) : stat \in {s \in Stats : Format(s.mode) = format}}
        \cup (IF format = S_IFLNK
              THEN UNION {PutLink(st, path, dest) : dest \in Dests}
              ELSE {})
        \cup (IF format = S_IFDIR
              THEN UNION {PutDir(st, path, entries) : entries \in EntryLists}
              ELSE {})

HasFormat(st, path, format) ==
    /\ FetchAttr(st, path).err = "nil"
    /\ Format(FetchAttr(st, path).stat.mode) = format

\* before: a state with an inode at path, after: the state a Put of another
\* format leaves
ReplacedAtomically(before, after, path, format) ==
    /\ ~after.panic
    /\ HasFormat(after, path, format)
    /\ normalizePath(path) \in DOMAIN before.inodes
          => before.inodes[normalizePath(path)] \notin after.dirty
    /\ \A reopened \in Close(Final(after)) : HasFormat(reopened, path, format)

\* C19: when PutAttr, PutLink or PutDir targets a path whose existing inode
\* (in memory or on disk) has a different type, the inode is replaced
\* atomically: the operation completes without aborting, later fetches see
\* the new type, the old inode is not written back again, and after Close
\* and reopening the inode read from the storage file has the new type in
\* whatever order the dirty inodes are synced.
C19_TypeReplacementIsAtomic ==
    \A path \in PathArgs, format \in {S_IFREG, S_IFDIR, S_IFLNK} :
        (FetchAttr(St, path).err = "nil" /\ ~HasFormat(St, path, format))
            => \A after \in PutsOfFormat(St, path, format) :
                   ReplacedAtomically(St, after, path, format)


(***************************************************************************)
(* Fetches of the wrong type.                                              *)
(***************************************************************************)
\* the paths at which the model can hold an inode
CachedPaths == PathArgs \cup UNION {Below(path) : path \in PathArgs}

WrongTypeFails ==
    \A path \in CachedPaths :
        /\ (FetchAttr(St, path).err = "nil" /\ ~HasFormat(St, path, S_IFLNK))
              => FetchLink(St, path) = [err |-> "EINVAL", dest |-> ""]
        /\ (FetchAttr(St, path).err = "nil" /\ ~HasFormat(St, path, S_IFDIR))
              => FetchDir(St, path) = [err |-> "ENOTDIR", entries |-> <<>>]

FetchChangesNothing ==
    (last'.op \in {"FetchLink", "FetchDir"})
        => UNCHANGED << inodes, dirtyInodes, heap, handles, disk, files >>

\* C21: fetch operations on an inode of the wrong type fail with the
\* type-specific error and leave the path map, the dirty set and the inode
\* unchanged: FetchLink(p) returns EINVAL when the inode at p is not a
\* symlink, and FetchDir(p) returns ENOTDIR when the inode at p is not a
\* directory.
C21_WrongTypeFetchFails == [] WrongTypeFails /\ [][FetchChangesNothing]_vars

C21_Witness ==
    /\ last.op = "FetchLink"
    /\ HasFormat(St, last.path, S_IFDIR)
    /\ FetchLink(St, last.path).err = "EINVAL"
    /\ HasFormat(St, "d/x", S_IFLNK)
    /\ FetchDir(St, "d/x").err = "ENOTDIR"


(***************************************************************************)
(* Spellings of paths: the cache manager called with paths in either       *)
(* spelling.                                                               *)
(***************************************************************************)
Spellings == {"", "/", "d", "/d"}

SpelledPutAttrStep ==
    \E path \in Spellings, stat \in Stats : DoPutAttr(path, stat)

SpelledPutNonExistantStep == \E path \in Spellings : DoPutNonExistant(path)

SpelledFetchAttrStep == \E path \in Spellings : DoFetchAttr(path)

NextSpelled ==
    \/ SpelledPutAttrStep
    \/ SpelledPutNonExistantStep
    \/ SpelledFetchAttrStep

SpecSpelled == InitCache /\ [][NextSpelled]_vars

\* pairs of spellings of the same path
SameSpellings ==
    {<< "", "/" >>} \cup {<< p, "/" \o p >> : p \in Relative}

SameFetches(st, p, q) ==
    /\ FetchAttr(st, p) = FetchAttr(st, q)
    /\ FetchLink(st, p) = FetchLink(st, q)
    /\ FetchDir(st, p) = FetchDir(st, q)

SamePuts(st, p, q) ==
    /\ \A stat \in Stats :
          /\ PutAttr(st, p, stat) = PutAttr(st, q, stat)
          /\ ~PutAttr(st, p, stat).panic
                => FetchAttr(PutAttr(st, p, stat), q).err = "nil"
    /\ \A dest \in Dests : PutLink(st, p, dest) = PutLink(st, q, dest)
    /\ \A entries \in EntryLists : PutDir(st, p, entries) = PutDir(st, q, entries)
    /\ PutNonExistant(st, p) = PutNonExistant(st, q)
    /\ OpenFile(st, p) = OpenFile(st, q)

\* C22: all public cache operations act on the normalized path: the empty
\* string and "/" denote the same inode (the root), "x" and "/x" denote the
\* same inode, so an inode put under one spelling is fetched under the
\* other, and normalizePath is idempotent.
C22_SpellingsDenoteSameInode ==
    \A pair \in SameSpellings :
        /\ normalizePath(pair[1]) = normalizePath(pair[2])
        /\ normalizePath(normalizePath(pair[1])) = normalizePath(pair[1])
        /\ normalizePath(normalizePath(pair[2])) = normalizePath(pair[2])
        /\ SameFetches(St, pair[1], pair[2])
        /\ SamePuts(St, pair[1], pair[2])

C22_Witness ==
    /\ last.op = "PutAttr"
    /\ last.path = ""
    /\ last.err = "nil"
    /\ FetchAttr(St, "/").err = "nil"
    /\ FetchAttr(St, "/") = FetchAttr(St, "")
    /\ FetchAttr(St, "d").err = "nil"
    /\ FetchAttr(St, "/d") = FetchAttr(St, "d")


(***************************************************************************)
(* Writeback of one symlink or directory inode through the safe file,      *)
(* step by step: CreateSafe, the writes of linkInode.Sync / dirInode.Sync, *)
(* safeFile.Close (fsync, close, rename), the deferred safeFile.Abort, and *)
(* a crash of the process at any step.                                     *)
(***************************************************************************)
\* Temp files a state holds at most.
MaxTemps == 2

SafePath == "/d"

SafeDests == {"t", "u"}

SafeChildren == {<< >>, << "x" >>}

\* a temporary name that is the name of the target
TempName_Target(n) == getStoragePath(SafePath, "")

\* ioutil.TempFile: a name in the directory of the target no file has
TempName(n) == << ".safe", n >>

TempNames == {TempName(n) : n \in 1 .. MaxTemps}

IdleSync == [pc |-> "idle", tmp |-> 0, name |-> << >>]

\* the bytes Sync writes for an inode, in the order of its writes
SyncExt(ino) == IF ino.kind = "lnk" THEN writeLinkData(ino) ELSE writeDirData(ino)

SyncImage(ino) == baseInode_write(ino) \o SyncExt(ino)

\* what the write at pc writes, and the position after it
SyncChunk(ino, pc) ==
    CASE pc = "base" -> baseInode_write(ino)
      [] pc = "magic" -> SubSeq(SyncExt(ino), 1, 2)
      [] pc = "payload" -> SubSeq(SyncExt(ino), 3, Len(SyncExt(ino)))

SyncAfter(pc) ==
    CASE pc = "base" -> "magic"
      [] pc = "magic" -> "payload"
      [] pc = "payload" -> "fsync"
      [] pc = "fsync" -> "close"
      [] pc = "close" -> "rename"

SafeInode(kind) ==
    NewInode(kind, SafePath, IF kind = "lnk" THEN S_IFLNK ELSE S_IFDIR)

InitSafe ==
    /\ \E kind \in {"lnk", "dir"} :
          heap = [EmptySt.heap EXCEPT ![1] = SafeInode(kind)]
    /\ inodes = Put(EmptyFn, SafePath, 1)
    /\ dirtyInodes = {1}
    /\ handles = EmptySt.handles
    /\ disk = EmptyFn
    /\ files = EmptySt.files
    /\ puts = Fn([i \in 0 .. (MaxBytes - 1) |-> 0])
    /\ source = NoSource
    /\ thr = IdleSync
    /\ locks = NoLocks
    /\ last = NoLast

SafeQuiet == UNCHANGED << inodes, dirtyInodes, handles, puts, source, locks >>

\* Sync returns err; the deferred Abort has closed the file.
SyncReturns(err) ==
    /\ thr' = IdleSync
    /\ last' = [NoLast EXCEPT !.op = "Sync", !.path = SafePath, !.err = err]

\* linkInode.SetDest, or the children PutDir sets, between two writebacks
SetDestStep ==
    /\ thr.pc = "idle"
    /\ \/ /\ heap[1].kind = "lnk"
          /\ \E dest \in SafeDests : heap' = [heap EXCEPT ![1].dest = dest]
       \/ /\ heap[1].kind = "dir"
          /\ \E children \in SafeChildren :
                heap' = [heap EXCEPT ![1].children = children]
    /\ last' = [NoLast EXCEPT !.op = "Set", !.path = SafePath]
    /\ UNCHANGED << disk, files, thr >>
    /\ SafeQuiet

\* CreateSafe: a new empty file under a temporary name, or an error
CreateSafeStep ==
    /\ thr.pc = "idle"
    /\ \/ /\ SyncReturns("EIO")
          /\ UNCHANGED << disk, files >>
       \/ /\ TempNames \ DOMAIN disk # {}
          /\ \E name \in {CHOOSE n \in TempNames \ DOMAIN disk : TRUE},
                tmp \in {SmallestFree(FreeFiles(St))} :
                /\ files' = [files EXCEPT ![tmp] = NewBackingFile]
                /\ disk' = Put(disk, name, tmp)
                /\ thr' = [pc |-> "base", tmp |-> tmp, name |-> name]
          /\ last' = [NoLast EXCEPT !.op = "CreateSafe", !.path = SafePath]
    /\ UNCHANGED heap
    /\ SafeQuiet

\* one write of Sync: all of it reaches the temp file, or a part of it does
\* and Sync returns the error
SyncWriteStep ==
    /\ thr.pc \in {"base", "magic", "payload"}
    /\ \E chunk \in {SyncChunk(heap[1], thr.pc)} :
          \/ /\ files' = [files EXCEPT ![thr.tmp].meta = @ \o chunk,
                                       ![thr.tmp].len = @ + Len(chunk)]
             /\ thr' = [thr EXCEPT !.pc = SyncAfter(thr.pc)]
             /\ last' = [NoLast EXCEPT !.op = "write", !.path = SafePath]
          \/ /\ \E n \in 0 .. (Len(chunk) - 1) :
                   files' = [files EXCEPT
                                ![thr.tmp].meta = @ \o SubSeq(chunk, 1, n),
                                ![thr.tmp].len = @ + n]
             /\ SyncReturns("EIO")
    /\ UNCHANGED << heap, disk >>
    /\ SafeQuiet

\* safeFile.Close: File.Sync, then File.Close; Sync drops the error Close
\* returns
SafeCloseStep ==
    /\ thr.pc \in {"fsync", "close"}
    /\ \/ /\ thr' = [thr EXCEPT !.pc = SyncAfter(thr.pc)]
          /\ last' = [NoLast EXCEPT !.op = thr.pc, !.path = SafePath]
       \/ SyncReturns("nil")
    /\ UNCHANGED << heap, disk, files >>
    /\ SafeQuiet

\* os.Rename(oldname, targetName): the temp file takes the name of the
\* target, whose file is dropped
SafeRenameStep ==
    /\ thr.pc = "rename"
    /\ \/ /\ disk' = Put(Del(disk, thr.name), getStoragePath(SafePath, ""), thr.tmp)
          /\ files' = IF Lookup(disk, getStoragePath(SafePath, "")) = 0 THEN files
                      ELSE [files EXCEPT
                               ![disk[getStoragePath(SafePath, "")]] = FreeFile]
       \/ UNCHANGED << disk, files >>
    /\ SyncReturns("nil")
    /\ UNCHANGED heap
    /\ SafeQuiet

\* The process dies: what a temp file not yet synced holds is any part of
\* what was written; the next process loads the inode from the target or
\* starts with an empty one.
SafeCrashStep ==
    /\ thr.pc # "idle"
    /\ \/ UNCHANGED files
       \/ /\ thr.pc \notin {"close", "rename"}
          /\ \E n \in 0 .. Len(files[thr.tmp].meta) :
                files' = [files EXCEPT
                             ![thr.tmp].meta = SubSeq(@, 1, n),
                             ![thr.tmp].len = n]
    /\ \E g \in {openInode([St EXCEPT !.heap[1] = FreeInode], SafePath)} :
          heap' = IF g.err THEN [heap EXCEPT ![1] = SafeInode(heap[1].kind)]
                  ELSE [heap EXCEPT ![1] = g.st.heap[g.id]]
    /\ thr' = IdleSync
    /\ last' = [NoLast EXCEPT !.op = "crash", !.path = SafePath]
    /\ UNCHANGED disk
    /\ SafeQuiet

NextSafe ==
    \/ SetDestStep
    \/ CreateSafeStep
    \/ SyncWriteStep
    \/ SafeCloseStep
    \/ SafeRenameStep
    \/ SafeCrashStep

SpecSafe == InitSafe /\ [][NextSafe]_vars

\* what the target storage file holds (nothing: no such file)
TargetImage ==
    IF Lookup(disk, getStoragePath(SafePath, "")) = 0 THEN << >>
    ELSE files[disk[getStoragePath(SafePath, "")]].meta

TargetComplete ==
    Lookup(disk, getStoragePath(SafePath, "")) # 0
        => /\ ~openInode([St EXCEPT !.heap[1] = FreeInode], SafePath).err
           /\ \E ino \in {heap[1]} \cup
                         {[heap[1] EXCEPT !.dest = dest] : dest \in SafeDests \cup {""}}
                         \cup {[heap[1] EXCEPT !.children = c] : c \in SafeChildren} :
                 TargetImage = SyncImage(ino)

TargetReplacedOnlyByRename ==
    TargetImage' # TargetImage
        => /\ thr.pc = "rename"
           /\ files[thr.tmp].meta = SyncImage(heap[1])
           /\ TargetImage' = SyncImage(heap[1])

\* C23: writeback of a symlink or directory inode through the safe file is
\* atomic per inode: at every step of Sync, and after a crash at any step,
\* the target storage file holds either the complete previously written
\* inode or the complete new inode, never a partial one; the target is
\* replaced only by the rename after the temp file was fully written, synced
\* and closed.
C23_SafeWritebackIsAtomic ==
    [] TargetComplete /\ [][TargetReplacedOnlyByRename]_vars

C23_Witness ==
    /\ last.op = "crash"
    /\ TargetImage # << >>
    /\ TargetImage # SyncImage(SafeInode(heap[1].kind))
    /\ \E name \in TempNames : Lookup(disk, name) # 0



FailedWriteCleansUp ==
    (thr.pc \in {"base", "magic", "payload"} /\ last'.op = "Sync")
        => /\ last'.err # "nil"
           /\ TargetImage' = TargetImage
           /\ thr.name \notin DOMAIN disk'

\* C24: if any step of a safe-file writeback fails before the rename (a
\* write of the header, extension or payload returns an error), the temp
\* file is removed, the target file is left untouched and Sync reports the
\* error.
C24_FailedWritebackRemovesTemp == [][FailedWriteCleansUp]_vars


(***************************************************************************)
(* The dirty set.                                                          *)
(***************************************************************************)
\* The storage key of the inode holds what Sync of the inode would write.
Durable(st, id) ==
    IF st.heap[id].kind = "reg"
    THEN fileInode_Sync(st.heap[id], st.files[st.heap[id].file])
            = st.files[st.heap[id].file]
    ELSE /\ Lookup(st.disk, getStoragePath(st.heap[id].storage_path, "")) # 0
         /\ st.files[st.disk[getStoragePath(st.heap[id].storage_path, "")]].meta
               = SyncImage(st.heap[id])

\* C25: at every point where no public operation is in progress, an
\* in-memory inode is in the dirty set if and only if its current state
\* differs from what is durably written under its storage key: a successful
\* sync removes it from the dirty set.
C25_DirtyIffNotDurable ==
    \A path \in DOMAIN inodes :
        (inodes[path] \in dirtyInodes) <=> ~Durable(St, inodes[path])


(***************************************************************************)
(* The quota record of the cache manager.                                  *)
(***************************************************************************)
\* The configured number of blocks the cache may hold.
BlocksTotal == 1

\* FileCache.quota: NewFileCache leaves it zero, SetBlocksTotal sets the
\* total, and no operation assigns BlocksUsed: RequestBlocks returns
\* nblocks, ReleaseBlocks is empty, and the handle calls neither.
quota == [BlocksTotal |-> BlocksTotal, BlocksUsed |-> 0]

RECURSIVE SumBlocksUsed(_)
SumBlocksUsed(objs) ==
    IF objs = {} THEN 0
    ELSE SumBlocksUsed(objs \ {SmallestFree(objs)})
            + heap[SmallestFree(objs)].blocks_used

\* C26: after any sequence of PutData, Resize and Discard on any set of
\* regular inodes, the quota record's blocks-used equals the sum of
\* blocks_used over all regular inodes and never exceeds the configured
\* blocks-total.
C26_QuotaCountsBlocksUsed ==
    /\ quota.BlocksUsed = SumBlocksUsed(RegObjs)
    /\ quota.BlocksUsed <= quota.BlocksTotal


(***************************************************************************)
(* Locks.  The threads of SpecThreads, which also call PutAttr of the path *)
(* of the regular inode, PutLink of another path (with its writeback) and  *)
(* PutData and FetchData on a handle a client holds.  FileCache.lock is    *)
(* held for the whole of a call of the cache manager, the mutex of the     *)
(* regular inode within writeback and within the calls of the handle.  The *)
(* mutex of the symlink inode is taken within writeback only and no thread *)
(* ever waits for it.                                                      *)
(***************************************************************************)
LinkPath == "a"

\* The stat PutAttr is called with: size 0, so that SetSize shrinks what
\* PutData wrote.
ThreadStats == {Stat(S_IFREG + 420, 1, 0)}

\* PutAttr: m.lock.Lock()
AttrLock(t) ==
    /\ thr[t].pc = "idle"
    /\ locks.manager = 0
    /\ Step(t, St, [Idle EXCEPT !.pc = "a_put"], [locks EXCEPT !.manager = t])

\* PutAttr: putAttr (requireInode, updateInode with SetSize and Resize,
\* markInodeDirty) and the deferred m.lock.Unlock()
AttrPut(t) ==
    /\ thr[t].pc = "a_put"
    /\ \E stat \in ThreadStats :
          ThreadCommit(PutAttr(St, ThreadPath, stat), t, Idle,
                       [locks EXCEPT !.manager = 0],
                       [NoLast EXCEPT !.op = "PutAttr", !.path = ThreadPath])

\* PutLink: m.lock.Lock()
LinkLock(t) ==
    /\ thr[t].pc = "idle"
    /\ locks.manager = 0
    /\ Step(t, St, [Idle EXCEPT !.pc = "l_put"], [locks EXCEPT !.manager = t])

\* PutLink up to the call of writeback
LinkPut(t) ==
    LET required(r) ==
            IF r.st.panic THEN r.st
            ELSE markInodeDirty([r.st EXCEPT !.heap[r.id].dest = "t"], r.id)
    IN  /\ thr[t].pc = "l_put"
        /\ Step(t, required(requireInode(St, normalizePath(LinkPath), S_IFLNK)),
                [thr[t] EXCEPT !.pc = "l_wb"], locks)

\* writeback: inode.Mutex().Lock() of the regular inode
WritebackLock(t) ==
    /\ thr[t].pc = "l_wb"
    /\ locks.inode = 0
    /\ Step(t, St, [thr[t] EXCEPT !.pc = "l_sync"], [locks EXCEPT !.inode = t])

\* writeback: the Sync of the dirty inodes and the deferred Unlock; PutLink
\* returns and the deferred m.lock.Unlock() runs
WritebackSync(t) ==
    /\ thr[t].pc = "l_sync"
    /\ \E after \in writeback(St) :
          ThreadCommit(after, t, Idle, NoLocks,
                       [NoLast EXCEPT !.op = "PutLink", !.path = LinkPath])

\* PutData, FetchData: m.lock()
DataLock(t) ==
    /\ thr[t].pc = "idle"
    /\ locks.inode = 0
    /\ \E h \in HeldHandles, pc \in {"p_body", "f_body"} :
          Step(t, St, [Idle EXCEPT !.pc = pc, !.h = h], [locks EXCEPT !.inode = t])

\* PutData of one byte at position 0 and the deferred m.unlock()
DataPut(t) ==
    /\ thr[t].pc = "p_body"
    /\ \E r \in {PutData(St, thr[t].h, << 1 >>, 0, 1)} :
          ThreadCommit([r.st EXCEPT !.panic = (r.err = "panic")], t, Idle,
                       [locks EXCEPT !.inode = 0],
                       [NoLast EXCEPT !.op = "PutData", !.err = r.err])

\* FetchData of one byte at position 0 and the deferred m.unlock()
DataFetch(t) ==
    /\ thr[t].pc = "f_body"
    /\ \E r \in {FetchData(St, thr[t].h, 1, 0)} :
          ThreadCommit([St EXCEPT !.panic = (r.err = "panic")], t, Idle,
                       [locks EXCEPT !.inode = 0],
                       [NoLast EXCEPT !.op = "FetchData", !.err = r.err])

NextLocks ==
    \E t \in Threads :
        \/ OpenLock(t)
        \/ OpenGet(t)
        \/ OpenIncRefCall(t)
        \/ OpenIncRefLock(t)
        \/ OpenIncRefBody(t)
        \/ OpenReturn(t)
        \/ OpenNew(t)
        \/ OpenSet(t)
        \/ CloseLock(t)
        \/ CloseDec(t)
        \/ CloseFile(t)
        \/ CloseNil(t)
        \/ CloseUnlock(t)
        \/ AttrLock(t)
        \/ AttrPut(t)
        \/ LinkLock(t)
        \/ LinkPut(t)
        \/ WritebackLock(t)
        \/ WritebackSync(t)
        \/ DataLock(t)
        \/ DataPut(t)
        \/ DataFetch(t)

SpecLocks == InitThreads /\ [][NextLocks]_vars



Running(t) == thr[t].pc \notin {"idle", "dead"}

\* the positions at which a thread that holds FileCache.lock asks for the
\* mutex of the inode
WaitsInode(t) == thr[t].pc \in {"o_inclock", "l_wb"}

\* A mutex is held by a thread within a call, and a thread that waits for
\* the mutex of the inode waits for a thread that waits for nothing.
NoWaitCycle ==
    /\ locks.manager # 0 => Running(locks.manager)
    /\ locks.inode # 0 => Running(locks.inode) /\ ~WaitsInode(locks.inode)
    /\ \A t \in Threads : WaitsInode(t) => locks.inode # t

ManagerBeforeInode ==
    \A t \in Threads :
        (locks'.manager = t /\ locks.manager # t) => locks.inode # t

\* C27: no thread ever tries to acquire the cache manager mutex while
\* holding an inode mutex (locks are taken only in the order manager, then
\* inode), so no interleaving of concurrent OpenFile, PutAttr, PutLink (with
\* writeback), PutData, FetchData and handle Close can deadlock.
C27_LockOrderIsManagerThenInode ==
    [] NoWaitCycle /\ [][ManagerBeforeInode]_vars

C27_Witness ==
    /\ thr[1].pc = "l_wb"
    /\ locks.manager = 1
    /\ locks.inode = 2
    /\ thr[2].pc = "p_body"

\* C28: operations on the same regular inode are serialized by its mutex:
\* the Resize that PutAttr triggers on the inode never runs concurrently
\* with PutData or FetchData on that inode, since every access to the
\* inode's size, blocks_used and blockmap happens while the inode's mutex
\* is held.
C28_InodeAccessUnderMutex ==
    \A t \in Threads, u \in Threads :
        ~(thr[t].pc = "a_put" /\ thr[u].pc \in {"p_body", "f_body"})


(***************************************************************************)
(* What Resize discards.                                                   *)
(***************************************************************************)
\* the blocks of the inode that IsAvailable reports
Available(ino, f) == {b \in Blocks : fileInode_IsAvailable(ino, f, b)}

\* the blocks a Resize to nbytes is to discard
ToDiscard(ino, f, nbytes) ==
    IF (nbytes + BLOCK_SIZE - 1) \div BLOCK_SIZE < SizeBlocks(ino)
    THEN {b \in Available(ino, f) : b >= (nbytes + BLOCK_SIZE - 1) \div BLOCK_SIZE}
    ELSE IF nbytes > ino.size /\ ino.size > 0 /\ ino.size % BLOCK_SIZE # 0
    THEN {b \in Available(ino, f) : b = SizeBlocks(ino) - 1}
    ELSE {}

\* r: what Resize(nbytes) of the inode returns and leaves
ResizeDiscards(ino, f, nbytes, r) ==
    /\ r.ret = Cardinality(Available(ino, f) \ Available(r.ino, r.f))
    /\ Available(ino, f) \ Available(r.ino, r.f) = ToDiscard(ino, f, nbytes)
    /\ Available(r.ino, r.f) \ Available(ino, f) = {}
    /\ r.ino.size = nbytes

\* C29: Resize(nbytes) returns exactly the number of blocks that were
\* available before the call and are not available after it, and that set
\* is: when the block count shrinks, the available blocks in
\* [new_blocks, old_blocks); when nbytes > old_size > 0 and old_size is not
\* a multiple of the block size, the previously-last block if it was
\* available; in every other case no block.  All other blocks keep their
\* availability and afterwards Size() = nbytes.
C29_ResizeReturnsDiscarded ==
    \A id \in RegObjs, nbytes \in 0 .. MaxBytes :
        ResizeDiscards(heap[id], files[heap[id].file], nbytes,
                       Resize(heap[id], files[heap[id].file], nbytes))


(***************************************************************************)
(* One blockmap entry under Touch, Shift, MarkDirty and Discard.  thr      *)
(* holds the entry, the entry before the last call and what the call       *)
(* returned.                                                               *)
(***************************************************************************)
\* The upper bytes (flags and reserved bits) the entries start with: none,
\* the reserved bits 11..8, FLAG_RSVD2, FLAG_DIRTY, all.
UpperBytes == {0, 15, 16, 128, 255}

Entries == {upper * 256 + ctr : upper \in UpperBytes, ctr \in 0 .. block_ACTR_MAX}

EntryAt(b) == [prev |-> b, b |-> b, new |-> FALSE, overflow |-> FALSE,
               existed |-> FALSE]

InitEntry ==
    /\ inodes = EmptyFn
    /\ dirtyInodes = {}
    /\ heap = EmptySt.heap
    /\ handles = EmptySt.handles
    /\ disk = EmptyFn
    /\ files = EmptySt.files
    /\ puts = Fn([i \in 0 .. (MaxBytes - 1) |-> 0])
    /\ source = NoSource
    /\ thr \in {EntryAt(b) : b \in Entries}
    /\ locks = NoLocks
    /\ last = NoLast

EntryDone(op, after) ==
    /\ thr' = [after EXCEPT !.prev = thr.b]
    /\ last' = [NoLast EXCEPT !.op = op]
    /\ UNCHANGED << inodes, dirtyInodes, heap, handles, disk, files, puts,
                    source, locks >>

TouchStep ==
    EntryDone("Touch", [EntryAt(Touch(thr.b).b) EXCEPT
                           !.new = Touch(thr.b).new,
                           !.overflow = Touch(thr.b).overflow])

ShiftStep == EntryDone("Shift", EntryAt(Shift(thr.b)))

MarkDirtyStep == EntryDone("MarkDirty", EntryAt(MarkDirty(thr.b)))

EntryDiscardStep ==
    EntryDone("Discard", [EntryAt(blockinfo_Discard(thr.b).b) EXCEPT
                             !.existed = blockinfo_Discard(thr.b).existed])

NextEntry == TouchStep \/ ShiftStep \/ MarkDirtyStep \/ EntryDiscardStep

SpecEntry == InitEntry /\ [][NextEntry]_vars

\* bits 15..8 and bits 11..0 of an entry
UpperByte(b) == b \div 256

BelowFlags(b) == b % 4096

TouchCounts ==
    last.op = "Touch"
        => /\ UpperByte(thr.b) = UpperByte(thr.prev)
           /\ IF readACTR(thr.prev) = 255
              THEN thr.b = thr.prev /\ ~thr.new /\ thr.overflow
              ELSE /\ readACTR(thr.b) = readACTR(thr.prev) + 1
                   /\ thr.new = (readACTR(thr.prev) = 0)
                   /\ thr.overflow = (readACTR(thr.b) = 255)

ShiftHalves ==
    last.op = "Shift"
        => /\ UpperByte(thr.b) = UpperByte(thr.prev)
           /\ readACTR(thr.b) =
                 IF readACTR(thr.prev) <= 1 THEN readACTR(thr.prev)
                 ELSE readACTR(thr.prev) \div 2
           /\ (readACTR(thr.b) # 0) = (readACTR(thr.prev) # 0)

MarkDirtyKeepsRest ==
    last.op = "MarkDirty"
        => /\ BelowFlags(thr.b) = BelowFlags(thr.prev)
           /\ readFlags(thr.b) % block_FLAG_DIRTY
                 = readFlags(thr.prev) % block_FLAG_DIRTY
           /\ readFlags(thr.b) >= block_FLAG_DIRTY

AvailabilityOwned ==
    /\ (blockinfo_IsAvailable(thr.b) /\ ~blockinfo_IsAvailable(thr.prev))
          => last.op = "Touch"
    /\ (~blockinfo_IsAvailable(thr.b) /\ blockinfo_IsAvailable(thr.prev))
          => last.op = "Discard"

\* C30: for every 16-bit blockmap entry, Touch leaves the entry unchanged
\* and returns (false, true) when ACTR = 255, otherwise increments ACTR by
\* one and returns (old ACTR = 0, new ACTR = 255); Shift halves ACTR but maps
\* every non-zero ACTR to a non-zero value and 0 to 0; and neither Touch,
\* Shift nor MarkDirty changes a bit outside the field it owns, so
\* availability (ACTR # 0) is only set by Touch and cleared by Discard.
C30_BlockinfoFieldsAreOwned ==
    TouchCounts /\ ShiftHalves /\ MarkDirtyKeepsRest /\ AvailabilityOwned

C30_Witness ==
    /\ last.op = "Shift"
    /\ readACTR(thr.prev) = 1
    /\ readACTR(thr.b) = 1
    /\ UpperByte(thr.b) = 255


(***************************************************************************)
(* What SetWritten, SetRead and Discard do to the blockmap.                *)
(***************************************************************************)
\* the entries of the blockmap at indices >= SizeBlocks
Beyond(ino, f) == [b \in {c \in Blocks : c >= SizeBlocks(ino)} |-> f.bm[b]]

\* r: what SetWritten(start, end) or SetRead(start, end) leaves
MarksRange(ino, f, start, end, r) ==
    LET range == {b \in Blocks : b >= start /\ b < Min(end, SizeBlocks(ino))}
    IN  /\ Available(r.ino, r.f) = Available(ino, f) \cup range
        /\ r.ino.blocks_used =
               ino.blocks_used + Cardinality(range \ Available(ino, f))
        /\ Beyond(r.ino, r.f) = Beyond(ino, f)

\* r: what Discard(start, end) returns and leaves
DiscardsRange(ino, f, start, end, r) ==
    LET range == {b \in Blocks : b >= start /\ b < end}
    IN  /\ Available(r.ino, r.f) = Available(ino, f) \ range
        /\ r.ret = Cardinality(range \cap Available(ino, f))
        /\ r.ino.blocks_used = SubU64(ino.blocks_used, r.ret)
        /\ Beyond(r.ino, r.f) = Beyond(ino, f)

\* C31: SetWritten(start, end) and SetRead(start, end) make available
\* exactly the blocks in [start, min(end, SizeBlocks)) and increase
\* blocks_used by the number of those that were unavailable; Discard(start,
\* end) makes the blocks of the range unavailable, decreases blocks_used by
\* the number that were available and returns that number; no blockmap
\* entry at an index >= SizeBlocks is changed.
C31_RangeOperationsStayBelowSize ==
    \A id \in RegObjs, start \in Blocks, end \in 0 .. MaxBlocks :
        LET ino == heap[id]
            f == files[heap[id].file]
        IN  /\ MarksRange(ino, f, start, end, SetWritten(ino, f, start, end))
            /\ MarksRange(ino, f, start, end, SetRead(ino, f, start, end))
            /\ DiscardsRange(ino, f, start, end,
                             fileInode_Discard(ino, f, start, end))


(***************************************************************************)
(* A directory and its child under PutDir, PutAttr, PutLink and            *)
(* PutNonExistant.                                                         *)
(***************************************************************************)
DirPaths == {"d", "d/x"}

RECURSIVE Repeat(_, _)
Repeat(s, n) ==
    IF n = 0 THEN ""
    ELSE LET half(h) == IF n % 2 = 0 THEN h \o h ELSE h \o h \o s
         IN  half(Repeat(s, n \div 2))

\* a link destination one byte longer than readLinkData accepts
LongDest == Repeat("t", inode_MAX_LINK_DEST_LEN + 1)

DirDests == Dests \cup {LongDest}

DirPutDirStep ==
    \E path \in PathArgs, entries \in EntryLists : DoPutDir(path, entries)

DirPutAttrStep ==
    \E path \in DirPaths \ PathArgs, stat \in Stats : DoPutAttr(path, stat)

DirPutLinkStep ==
    \E path \in DirPaths \ PathArgs, dest \in DirDests : DoPutLink(path, dest)

DirPutNonExistantStep == \E path \in DirPaths : DoPutNonExistant(path)

NextDir ==
    \/ DirPutDirStep
    \/ DirPutAttrStep
    \/ DirPutLinkStep
    \/ DirPutNonExistantStep

SpecDir == InitCache /\ [][NextDir]_vars

\* the children list of the directory inode at path (none when the path has
\* no directory inode)
ChildrenOf(st, path) ==
    LET got(g) ==
            IF g.err \/ Format(g.st.heap[g.id].mode) # S_IFDIR THEN << >>
            ELSE g.st.heap[g.id].children
    IN  got(getInode(st, normalizePath(path)))

ChildrenResolve(st, path) ==
    /\ \A i, j \in 1 .. Len(ChildrenOf(st, path)) :
           ChildrenOf(st, path)[i] = ChildrenOf(st, path)[j] => i = j
    /\ \A i \in 1 .. Len(ChildrenOf(st, path)) :
           FetchAttr(st, path \o "/" \o ChildrenOf(st, path)[i]).err = "nil"
    /\ \A i \in 1 .. Len(FetchDir(st, path).entries) :
           FetchDir(st, path).entries[i].stat # NoStat

\* C32: after any sequence of PutDir, PutAttr, PutLink and PutNonExistant,
\* every directory inode's children list mentions each leaf name at most
\* once and every listed name resolves to an inode: FetchAttr of the child
\* path succeeds and FetchDir substitutes no all-zero entry.
C32_ListedChildrenResolve == \A path \in DirPaths : ChildrenResolve(St, path)


(***************************************************************************)
(* CacheLayer.Lstat, OpenDir and Readlink over a source that holds one     *)
(* object: a regular file, a directory with its entries or a symlink with  *)
(* its destination.  thr holds the calls the last operation made to the    *)
(* source and to the cache, in order.                                      *)
(***************************************************************************)
LayerSources ==
    [ready : BOOLEAN, error : SourceErrors, stat : Stats, dest : Dests,
     entries : EntryLists]

\* layer.FileSystem.OpenDir of the source
source_OpenDir(src) ==
    IF src.error # "nil" THEN [entries |-> << >>, err |-> src.error]
    ELSE IF Format(src.stat.mode) # S_IFDIR
    THEN [entries |-> << >>, err |-> "ENOTDIR"]
    ELSE [entries |-> src.entries, err |-> "nil"]

\* layer.FileSystem.Readlink of the source
source_Readlink(src) ==
    IF src.error # "nil" THEN [dest |-> "", err |-> src.error]
    ELSE IF Format(src.stat.mode) # S_IFLNK THEN [dest |-> "", err |-> "EINVAL"]
    ELSE [dest |-> src.dest, err |-> "nil"]

\* CacheLayer.OpenDir: the possible outcomes
OpenDir(st, src, path) ==
    LET c == FetchDir(st, path)
        r == source_OpenDir(src)
    IN  IF ~src.ready
        THEN {[st |-> st, entries |-> c.entries, err |-> c.err,
               calls |-> << "cache.FetchDir" >>]}
        ELSE IF r.err # "nil"
        THEN {[st |-> PutNonExistant(st, path), entries |-> r.entries,
               err |-> r.err,
               calls |-> << "fs.OpenDir", "cache.PutNonExistant" >>]}
        ELSE {[st |-> after, entries |-> r.entries, err |-> r.err,
               calls |-> << "fs.OpenDir", "cache.PutDir" >>] :
                 after \in PutDir(st, path, r.entries)}

\* Readlink that leaves the cache alone when the source fails
Readlink_KeepsOnError(st, src, path) ==
    LET c == FetchLink(st, path)
        r == source_Readlink(src)
    IN  IF ~src.ready
        THEN {[st |-> st, dest |-> c.dest, err |-> c.err,
               calls |-> << "cache.FetchLink" >>]}
        ELSE IF r.err = "nil"
        THEN {[st |-> after, dest |-> r.dest, err |-> r.err,
               calls |-> << "fs.Readlink", "cache.PutLink" >>] :
                 after \in PutLink(st, path, r.dest)}
        ELSE {[st |-> st, dest |-> r.dest, err |-> r.err,
               calls |-> << "fs.Readlink" >>]}

\* CacheLayer.Readlink: the possible outcomes
Readlink(st, src, path) ==
    LET c == FetchLink(st, path)
        r == source_Readlink(src)
    IN  IF ~src.ready
        THEN {[st |-> st, dest |-> c.dest, err |-> c.err,
               calls |-> << "cache.FetchLink" >>]}
        ELSE IF r.err = "nil"
        THEN {[st |-> after, dest |-> r.dest, err |-> r.err,
               calls |-> << "fs.Readlink", "cache.PutLink" >>] :
                 after \in PutLink(st, path, r.dest)}
        ELSE {[st |-> PutNonExistant(st, path), dest |-> r.dest, err |-> r.err,
               calls |-> << "fs.Readlink", "cache.PutNonExistant" >>]}

InitLayer ==
    /\ inodes = EmptyFn
    /\ dirtyInodes = {}
    /\ heap = EmptySt.heap
    /\ handles = EmptySt.handles
    /\ disk = EmptyFn
    /\ files = EmptySt.files
    /\ puts = Fn([i \in 0 .. (MaxBytes - 1) |-> 0])
    /\ source \in {src \in LayerSources : src.ready /\ src.error = "nil"}
    /\ thr = << >>
    /\ locks = NoLocks
    /\ last = NoLast

LayerDone(name, path, r) ==
    /\ Commit(r.st, [Op(name, path) EXCEPT !.err = r.err])
    /\ thr' = r.calls
    /\ UNCHANGED << puts, source, locks >>

LayerLstatStep ==
    \E path \in PathArgs : LayerDone("Lstat", path, Lstat(St, source, path))

LayerOpenDirStep ==
    \E path \in PathArgs : \E r \in OpenDir(St, source, path) :
        LayerDone("OpenDir", path, r)

LayerReadlinkStep ==
    \E path \in PathArgs : \E r \in Readlink(St, source, path) :
        LayerDone("Readlink", path, r)

\* The source becomes ready or not ready, starts or stops failing, or its
\* object changes.
LayerSourceStep ==
    /\ \E src \in LayerSources \ {source} : source' = src
    /\ last' = [NoLast EXCEPT !.op = "Source"]
    /\ UNCHANGED << inodes, dirtyInodes, heap, handles, disk, files, puts,
                    thr, locks >>

NextLayer ==
    \/ LayerLstatStep
    \/ LayerOpenDirStep
    \/ LayerReadlinkStep
    \/ LayerSourceStep

SpecLayer == InitLayer /\ [][NextLayer]_vars

\* r: an outcome of the overlay operation; fetched: what the cache's Fetch
\* returns; asked: what the source returns; stored: the states the Put of
\* the success leaves; got: what of r, fetched and asked is the result
Overlays(r, path, fetched, asked, stored, got(_), fetch, ask, put) ==
    IF ~source.ready
    THEN /\ r.calls = << fetch >>
         /\ r.st = St
         /\ got(r) = got(fetched) /\ r.err = fetched.err
    ELSE IF asked.err = "nil"
    THEN /\ r.calls = << ask, put >>
         /\ r.st \in stored
         /\ got(r) = got(asked) /\ r.err = "nil"
    ELSE /\ r.calls = << ask, "cache.PutNonExistant" >>
         /\ r.st = PutNonExistant(St, path)
         /\ got(r) = got(asked) /\ r.err = asked.err

StatGot(r) == r.stat

EntriesGot(r) == r.entries

DestGot(r) == r.dest

cache_BLOCK_SIZE == 4096

\* the longest blockmap, in blocks
MaxMapLen == 3

TruncPositions == {0, 13, 4095, 4096, 7491}

TruncLengths == {1, 1000, 4096, 4100, 8192}

Blockmaps == UNION {[1 .. n -> {0, 1}] : n \in 0 .. MaxMapLen}

truncateRead(position, length, lastReadableBlock) ==
    LET lastByte == position + length - 1
        lastReadableByte == (lastReadableBlock + 1) * 4096 - 1
        toOmit == lastByte - lastReadableByte
    IN  length - toOmit

\* The part of ReadData up to the slice data[:readLength]; a slice bound
\* outside [0, len(data)] panics.
ReadData(call) ==
    LET firstBlock == call.position \div cache_BLOCK_SIZE
        nblocks == (call.length + cache_BLOCK_SIZE - 1) \div cache_BLOCK_SIZE
        lastBlock == firstBlock + nblocks - 1
        lastCheckableBlock ==
            IF Len(call.blockmap) <= lastBlock THEN Len(call.blockmap) - 1
            ELSE lastBlock
        missing == {b \in firstBlock .. lastCheckableBlock :
                       call.blockmap[b + 1] = 0}
        lastReadableBlock ==
            IF missing # {}
            THEN (CHOOSE b \in missing : \A c \in missing : b <= c) - 1
            ELSE Max(firstBlock, lastCheckableBlock + 1)
        truncated == /\ lastReadableBlock < lastCheckableBlock
                     /\ lastReadableBlock < lastBlock
        readLength ==
            IF truncated
            THEN truncateRead(call.position, call.length, lastReadableBlock)
            ELSE call.length
    IN  [call EXCEPT !.pc = "read",
                     !.firstBlock = firstBlock,
                     !.lastBlock = lastBlock,
                     !.lastReadableBlock = lastReadableBlock,
                     !.truncated = truncated,
                     !.readLength = readLength,
                     !.panic = (readLength < 0 \/ readLength > call.length)]

ReadCalls ==
    [pc : {"call"}, position : TruncPositions, length : TruncLengths,
     blockmap : Blockmaps, firstBlock : {0}, lastBlock : {0},
     lastReadableBlock : {0}, truncated : {FALSE}, readLength : {0},
     panic : {FALSE}]

InitTrunc ==
    /\ inodes = EmptyFn
    /\ dirtyInodes = {}
    /\ heap = EmptySt.heap
    /\ handles = EmptySt.handles
    /\ disk = EmptyFn
    /\ files = EmptySt.files
    /\ puts = Fn([i \in 0 .. (MaxBytes - 1) |-> 0])
    /\ source = NoSource
    /\ thr \in ReadCalls
    /\ locks = NoLocks
    /\ last = NoLast

ReadDataStep ==
    /\ thr.pc = "call"
    /\ thr' = ReadData(thr)
    /\ last' = [NoLast EXCEPT !.op = "ReadData",
                              !.err = IF ReadData(thr).panic THEN "panic"
                                      ELSE "nil"]
    /\ UNCHANGED << inodes, dirtyInodes, heap, handles, disk, files, puts,
                    source, locks >>

NextTrunc == ReadDataStep

SpecTrunc == InitTrunc /\ [][NextTrunc]_vars

\* C34: in the calls ReadData makes (lastReadableBlock from firstBlock - 1
\* to lastBlock - 1), truncateRead(position, length, lastReadableBlock)
\* equals length - (position + length - 1 - ((lastReadableBlock + 1) * 4096
\* - 1)), the number of bytes from position through the end of the last
\* readable block, and lies in [0, length], so that data[:readLength] is a
\* valid slice.
C34_TruncateReadIsValidSlice ==
    (thr.pc = "read" /\ thr.truncated) =>
        /\ thr.lastReadableBlock >= thr.firstBlock - 1
        /\ thr.lastReadableBlock <= thr.lastBlock - 1
        /\ thr.readLength =
               thr.length - (thr.position + thr.length - 1
                             - ((thr.lastReadableBlock + 1) * 4096 - 1))
        /\ thr.readLength = (thr.lastReadableBlock + 1) * 4096 - thr.position
        /\ thr.readLength >= 0
        /\ thr.readLength <= thr.length
        /\ ~thr.panic


(***************************************************************************)
(* IDList, the free list of IDs: a sequence of segments [start, end] and   *)
(* the number of IDs it holds.  thr holds the list, what the last call     *)
(* returned and whether the process panicked.                              *)
(***************************************************************************)
\* the largest ID the model uses
MaxID == 4

IDs == 0 .. MaxID

\* the largest Count the model lets a list reach
MaxCount == 6

NewEmptyIDList == [segments |-> << >>, total |-> 0]

\* 0-based index of the first segment with start >= id, len(segments) when
\* there is none
findSegment(list, id) ==
    LET found == {i \in 1 .. Len(list.segments) : list.segments[i].start >= id}
    IN  IF found = {} THEN Len(list.segments)
        ELSE (CHOOSE i \in found : \A j \in found : i <= j) - 1

\* segment_index is 0-based; the two segments are consecutive at the only
\* call
extendSegment(list, segment_index) ==
    LET i == segment_index + 1
    IN  [list EXCEPT !.segments =
            SubSeq(@, 1, i - 1)
                \o << [start |-> @[i].start, end |-> @[i + 1].end] >>
                \o SubSeq(@, i + 2, Len(@))]

Count(list) == list.total

Alloc(list) ==
    IF Len(list.segments) = 0
    THEN [list |-> list, ret |-> 0, err |-> "out of IDs"]
    ELSE LET result == list.segments[1].start
             segment == [list.segments[1] EXCEPT !.start = @ + 1]
         IN  [list |-> [segments |-> IF segment.start > segment.end
                                     THEN Tail(list.segments)
                                     ELSE << segment >> \o Tail(list.segments),
                        total |-> SubU64(list.total, 1)],
              ret |-> result, err |-> "nil"]

AddBlock(list, start, end) ==
    LET segment_index == findSegment(list, start)
        count == (end - start) + 1
        n == Len(list.segments)
        segs == list.segments
        overlaps == [list |-> list, err |-> "new block overlaps existing block"]
        grown == [list EXCEPT !.segments[segment_index].end = end,
                              !.total = @ + count]
        behind ==
            IF segment_index < n /\ segs[segment_index + 1].start = end + 1
            THEN [list |-> extendSegment(grown, segment_index - 1), err |-> "nil"]
            ELSE [list |-> grown, err |-> "nil"]
        rest ==
            IF segment_index < n
            THEN IF segs[segment_index + 1].start <= end THEN overlaps
                 ELSE IF segs[segment_index + 1].start = end + 1
                 THEN [list |-> [list EXCEPT
                                    !.segments[segment_index + 1].start = start,
                                    !.total = @ + count],
                       err |-> "nil"]
                 ELSE [list |-> [segments |->
                                    SubSeq(segs, 1, segment_index)
                                        \o << [start |-> start, end |-> end] >>
                                        \o SubSeq(segs, segment_index + 1, n),
                                 total |-> list.total + count],
                       err |-> "nil"]
            ELSE [list |-> [segments |-> Append(segs, [start |-> start,
                                                       end |-> end]),
                            total |-> list.total + count],
                  err |-> "nil"]
    IN  IF segment_index > 0 /\ segs[segment_index].end >= start THEN overlaps
        ELSE IF segment_index > 0 /\ segs[segment_index].end + 1 = start
        THEN behind
        ELSE rest

\* panics when AddBlock returns an error
Release(list, id) ==
    LET r == AddBlock(list, id, id)
    IN  [list |-> r.list, panic |-> (r.err # "nil")]

InitIDs ==
    /\ inodes = EmptyFn
    /\ dirtyInodes = {}
    /\ heap = EmptySt.heap
    /\ handles = EmptySt.handles
    /\ disk = EmptyFn
    /\ files = EmptySt.files
    /\ puts = Fn([i \in 0 .. (MaxBytes - 1) |-> 0])
    /\ source = NoSource
    /\ thr = [list |-> NewEmptyIDList, ret |-> 0, panic |-> FALSE]
    /\ locks = NoLocks
    /\ last = NoLast

IDsDone(name, list, ret, err) ==
    /\ ~thr.panic
    /\ Count(list) <= MaxCount
    /\ thr' = [list |-> list, ret |-> ret, panic |-> (err = "panic")]
    /\ last' = [NoLast EXCEPT !.op = name, !.err = err]
    /\ UNCHANGED << inodes, dirtyInodes, heap, handles, disk, files, puts,
                    source, locks >>

AddBlockStep ==
    \E start \in IDs, end \in IDs :
        /\ start <= end
        /\ IDsDone("AddBlock", AddBlock(thr.list, start, end).list, 0,
                   AddBlock(thr.list, start, end).err)

ReleaseStep ==
    \E id \in IDs :
        IDsDone("Release", Release(thr.list, id).list, 0,
                IF Release(thr.list, id).panic THEN "panic" ELSE "nil")

AllocStep ==
    IDsDone("Alloc", Alloc(thr.list).list, Alloc(thr.list).ret,
            Alloc(thr.list).err)

NextIDs == AddBlockStep \/ ReleaseStep \/ AllocStep

SpecIDs == InitIDs /\ [][NextIDs]_vars

\* the IDs a list holds
Held(list) ==
    UNION {list.segments[i].start .. list.segments[i].end :
               i \in 1 .. Len(list.segments)}

\* r: what Alloc returns and leaves
AllocTakesSmallest(list, r) ==
    IF Held(list) = {}
    THEN r.err # "nil" /\ r.list = list
    ELSE /\ r.err = "nil"
         /\ r.ret \in Held(list)
         /\ \A id \in Held(list) : r.ret <= id
         /\ Held(r.list) = Held(list) \ {r.ret}
         /\ Count(r.list) = Count(list) - 1

\* C35: Alloc returns the smallest ID currently in the free list and
\* removes exactly that ID (Count decreases by 1, all other IDs stay); on
\* an empty list it returns an error and leaves the list unchanged.
C35_AllocTakesSmallest == AllocTakesSmallest(thr.list, Alloc(thr.list))

\* C36: AddBlock(start, end) returns an error whenever [start, end] shares
\* an ID with the IDs already in the list, and then leaves the segments and
\* Count unchanged; Release(id) of an ID that is already in the list panics
\* instead of adding it twice.
C36_AddBlockRejectsOverlap ==
    /\ \A start \in IDs, end \in IDs :
           (start <= end /\ (start .. end) \cap Held(thr.list) # {})
               => /\ AddBlock(thr.list, start, end).err # "nil"
                  /\ AddBlock(thr.list, start, end).list = thr.list
    /\ \A id \in Held(thr.list) :
           /\ Release(thr.list, id).panic
           /\ Release(thr.list, id).list = thr.list

RECURSIVE SegmentSizes(_)
SegmentSizes(segments) ==
    IF segments = << >> THEN 0
    ELSE Head(segments).end - Head(segments).start + 1
             + SegmentSizes(Tail(segments))

\* C37: after any sequence of AddBlock, Release and Alloc, the segments are
\* sorted by start, pairwise disjoint and never adjacent, every segment has
\* start <= end, and Count() equals the number of IDs in the segments.
C37_SegmentsSortedDisjointMerged ==
    LET segs == thr.list.segments
    IN  /\ \A i \in 1 .. Len(segs) : segs[i].start <= segs[i].end
        /\ \A i \in 1 .. (Len(segs) - 1) : segs[i].end + 1 < segs[i + 1].start
        /\ Count(thr.list) = SegmentSizes(segs)
        /\ Count(thr.list) = Cardinality(Held(thr.list))


(***************************************************************************)
(* Resize and SetWritten on a regular inode.  thr holds the blocks that    *)
(* SetWritten has marked and no Resize has cut off or discarded since.     *)
(***************************************************************************)
InitMarks ==
    /\ inodes = FileSt.inodes
    /\ dirtyInodes = FileSt.dirty
    /\ heap = FileSt.heap
    /\ handles = FileSt.handles
    /\ disk = FileSt.disk
    /\ files = FileSt.files
    /\ puts = Fn([i \in 0 .. (MaxBytes - 1) |-> 0])
    /\ source = NoSource
    /\ thr = {}
    /\ locks = NoLocks
    /\ last = NoLast

MarksDone(id, r, name, marked) ==
    /\ Commit([St EXCEPT !.heap[id] = r.ino, !.files[heap[id].file] = r.f],
              [NoLast EXCEPT !.op = name])
    /\ thr' = marked
    /\ UNCHANGED << puts, source, locks >>

\* the blocks a Resize of the inode to nbytes leaves marked
StillMarked(ino, nbytes) ==
    {b \in thr :
        /\ b < (nbytes + BLOCK_SIZE - 1) \div BLOCK_SIZE
        /\ ~(/\ nbytes > ino.size
             /\ ino.size % BLOCK_SIZE # 0
             /\ b = SizeBlocks(ino) - 1)}

MarksResizeStep ==
    \E id \in RegObjs, nbytes \in 0 .. MaxBytes :
        MarksDone(id, Resize(heap[id], files[heap[id].file], nbytes), "Resize",
                  StillMarked(heap[id], nbytes))

MarksSetWrittenStep ==
    \E id \in RegObjs, start \in Blocks, end \in 0 .. MaxBlocks :
        MarksDone(id, SetWritten(heap[id], files[heap[id].file], start, end),
                  "SetWritten",
                  thr \cup {b \in Blocks :
                               b >= start /\ b < Min(end, SizeBlocks(heap[id]))})

NextMarks == MarksResizeStep \/ MarksSetWrittenStep

SpecMarks == InitMarks /\ [][NextMarks]_vars

\* C38: after any sequence of Resize and SetWritten, a block that a
\* shrinking Resize cut off is unavailable when a later Resize extends the
\* file over it again: only blocks marked by SetWritten since they were
\* last cut off are reported available.
C38_CutOffBlocksStayUnavailable ==
    \A id \in RegObjs : Available(heap[id], files[heap[id].file]) \subseteq thr


(***************************************************************************)
(* PutData below the size PutAttr has set.                                 *)
(***************************************************************************)
\* the handles a client holds on the inode the cache has at path
HandlesAt(path) ==
    {h \in HeldHandles :
        /\ normalizePath(path) \in DOMAIN inodes
        /\ handles[h].inode = inodes[normalizePath(path)]}

\* C39: a PutData whose byte range lies entirely below the size of the
\* inode as last set by PutAttr does not change the size that FetchAttr
\* reports for the inode.
C39_PutDataBelowSizeKeepsSize ==
    (last.op = "PutAttr" /\ Format(last.stat.mode) = S_IFREG) =>
        \A h \in HandlesAt(last.path), data \in PlainBuffers,
           position \in 0 .. MaxBytes :
            (Len(data) > 0 /\ position + Len(data) <= last.stat.size)
                => FetchAttr(PutData(St, h, data, position, Len(data)).st,
                             last.path).stat.size = last.stat.size


(***************************************************************************)
(* What TruncateRead returns.                                              *)
(***************************************************************************)
\* r: what TruncateRead(position, length) returns
WithinBufferAndFile(ino, position, length, r) ==
    /\ r.actual_size <= length
    /\ r.actual_size > 0 => position + r.actual_size <= ino.size

\* C40: for every file size, availability map, position and size
\* (positions at or beyond the end of the file included), TruncateRead
\* returns an actual_size <= size and, when actual_size > 0, position +
\* actual_size <= file size, so FetchData never slices its buffer beyond
\* len(data).
C40_TruncateReadWithinBuffer ==
    \A h \in HeldHandles, position \in 0 .. MaxBytes, length \in 1 .. MaxLen :
        /\ WithinBufferAndFile(InodeOf(St, h), position, length,
                               TruncateRead(InodeOf(St, h), BackingOf(St, h),
                                            position, length))
        /\ FetchData(St, h, length, position).err # "panic"

=============================================================================
